---------------------------- MODULE Spec2Model ----------------------------
(***************************************************************************)
(* Token-compliance audit plugin (src/code.ts, the most evolved variant,   *)
(* lines 743-1986): the plugin's session state, the host document it reads *)
(* and writes, and one action per event or message handler.                *)
(*                                                                         *)
(* Text (style names, font names, hex labels, map keys) is a sequence of   *)
(* one-character strings, so that startsWith, substring, includes and      *)
(* concatenation are computed as the code computes them.                   *)
(***************************************************************************)
EXTENDS Integers, Sequences, FiniteSets, TLC

VARIABLES
    doc,                      \* host: node id -> styling of the node
    currentPage,              \* host: figma.currentPage.id
    selection,                \* host: figma.currentPage.selection (node ids)
    pendingSel,               \* host: selectionchange events not yet delivered
    showHiddenElements,
    currentTab,
    ignoringSelectionChange,
    rootFrameId,
    rootFrameIds,
    initialSelectionIds,
    cachedColorTokens,
    cachedTextTokens,
    cachedPageId,
    originalNodeStates,
    suspended,                \* handlers waiting in "await setTimeout"
    outbox,                   \* figma.ui.postMessage calls of the latest step
    console,                  \* console.log lines of the latest step
    analyzed,                 \* history: containers given to the latest analysis
    applied,                  \* history: (node, slot) pairs the latest edit applied to
    roundTrip,                \* history: the latest apply / remove pair on a node
    colorCacheOrigin,         \* history: page cachedColorTokens was computed on
    textCacheOrigin,          \* history: page cachedTextTokens was computed on
    request,                  \* history: the latest get-suggested-tokens request
    edits                     \* history: apply / remove messages handled (and
                              \* analyses started step by step) so far

hostVars == <<doc, currentPage, selection, pendingSel>>
pluginVars ==
    <<showHiddenElements, currentTab, ignoringSelectionChange, rootFrameId,
      rootFrameIds, initialSelectionIds, cachedColorTokens, cachedTextTokens,
      cachedPageId, originalNodeStates, suspended>>
outVars == <<outbox, console>>
historyVars ==
    <<analyzed, applied, roundTrip, colorCacheOrigin, textCacheOrigin, request,
      edits>>
vars == <<hostVars, pluginVars, outVars, historyVars>>

(***************************************************************************)
(* Bounds of the model.                                                    *)
(***************************************************************************)
MaxPending == 2       \* selectionchange events the host may hold undelivered
MaxSuspended == 1     \* handlers that may be waiting on a timer at once
MaxEdits == 2         \* apply / remove messages in one behaviour

(***************************************************************************)
(* Values the host API uses                                                *)
(***************************************************************************)
Null == "null"                 \* null / undefined, where an id is expected
NullRec == [null |-> TRUE]     \* null / undefined, where an object is expected
None == [some |-> FALSE, v |-> <<>>]     \* null, where an array is expected
Some(list) == [some |-> TRUE, v |-> list]
Mixed == "figma.mixed"         \* the figma.mixed symbol, as a style id
NoStyle == ""                  \* the empty style id

(***************************************************************************)
(* Text helpers (String.prototype.startsWith / substring / includes)       *)
(***************************************************************************)
startsWith(s, p) ==
    /\ Len(p) <= Len(s)
    /\ \A i \in 1..Len(p) : s[i] = p[i]

substring(s, from) == SubSeq(s, from + 1, Len(s))

includes(s, sub) ==
    \E k \in 0..(Len(s) - Len(sub)) :
        \A i \in 1..Len(sub) : s[k + i] = sub[i]

Lower(c) ==
    CASE c = "A" -> "a" [] c = "B" -> "b" [] c = "C" -> "c" [] c = "D" -> "d"
      [] c = "E" -> "e" [] c = "F" -> "f" [] c = "G" -> "g" [] c = "H" -> "h"
      [] c = "I" -> "i" [] c = "J" -> "j" [] c = "K" -> "k" [] c = "L" -> "l"
      [] c = "M" -> "m" [] c = "N" -> "n" [] c = "O" -> "o" [] c = "P" -> "p"
      [] c = "Q" -> "q" [] c = "R" -> "r" [] c = "S" -> "s" [] c = "T" -> "t"
      [] c = "U" -> "u" [] c = "V" -> "v" [] c = "W" -> "w" [] c = "X" -> "x"
      [] c = "Y" -> "y" [] c = "Z" -> "z" [] OTHER -> c

Upper(c) ==
    CASE c = "a" -> "A" [] c = "b" -> "B" [] c = "c" -> "C" [] c = "d" -> "D"
      [] c = "e" -> "E" [] c = "f" -> "F" [] OTHER -> c

toLowerCase(s) == [i \in 1..Len(s) |-> Lower(s[i])]

toUpperCase(s) == [i \in 1..Len(s) |-> Upper(s[i])]

trim(s) ==
    LET isWs(c) == c = " "
        firsts == {i \in 1..Len(s) : ~isWs(s[i])}
    IN  IF firsts = {} THEN <<>>
        ELSE SubSeq(s, CHOOSE i \in firsts : \A j \in firsts : i <= j,
                       CHOOSE i \in firsts : \A j \in firsts : j <= i)

(***************************************************************************)
(* rgbToHex: a channel is held as the byte Math.round(v * 255); toHex      *)
(* writes it as two hexadecimal digits, the whole is upper-cased.          *)
(***************************************************************************)
HexDigits ==
    <<"0","1","2","3","4","5","6","7","8","9","a","b","c","d","e","f">>

toHex(v) == <<HexDigits[(v \div 16) + 1], HexDigits[(v % 16) + 1]>>

rgbToHex(color) ==
    toUpperCase(<<"#">> \o toHex(color[1]) \o toHex(color[2]) \o toHex(color[3]))

(***************************************************************************)
(* Paints                                                                  *)
(***************************************************************************)
NoVar == Null

Solid(r, g, b) ==
    [type |-> "SOLID", visible |-> TRUE, color |-> <<r, g, b>>,
     boundVariables |-> NoVar]

Gradient == [type |-> "GRADIENT_LINEAR", visible |-> TRUE,
             color |-> <<0, 0, 0>>, boundVariables |-> NoVar]

Image == [type |-> "IMAGE", visible |-> TRUE,
          color |-> <<0, 0, 0>>, boundVariables |-> NoVar]

Video == [type |-> "VIDEO", visible |-> TRUE,
          color |-> <<0, 0, 0>>, boundVariables |-> NoVar]

Pattern == [type |-> "PATTERN", visible |-> TRUE,
            color |-> <<0, 0, 0>>, boundVariables |-> NoVar]

isGradientPaint(p) ==
    p.type \in {"GRADIENT_LINEAR", "GRADIENT_RADIAL", "GRADIENT_ANGULAR",
                "GRADIENT_DIAMOND"}

typeStartsWithGradient(p) == isGradientPaint(p)

hasBoundColor(p) == p.boundVariables # NoVar

(***************************************************************************)
(* Token names                                                             *)
(***************************************************************************)
VALID_TOKEN_PREFIXES ==
    << <<"B","a","s","e"," ","C","o","l","o","r","/">>,
       <<"C","o","n","t","e","x","t","u","a","l"," ","C","o","l","o","r","/">>,
       <<"B","a","s","e","/">>,
       <<"S","u","r","f","a","c","e"," ","C","o","l","o","r","s","/">>,
       <<"C","o","n","t","e","n","t"," ","C","o","l","o","r","s","/">> ,
       <<"B","r","a","n","d"," ","C","o","l","o","r","s","/">> >>

hasValidPrefix(name) ==
    \E i \in 1..Len(VALID_TOKEN_PREFIXES) : startsWith(name, VALID_TOKEN_PREFIXES[i])

\* result.replace(/^<books emoji>\s+/, ''): the emoji is the one character "@"
BooksEmoji == "@"

stripEmoji(s) ==
    IF Len(s) >= 2 /\ s[1] = BooksEmoji /\ s[2] = " "
    THEN LET rest == {i \in 2..Len(s) : s[i] # " "}
         IN  IF rest = {} THEN <<>>
             ELSE SubSeq(s, CHOOSE i \in rest : \A j \in rest : i <= j, Len(s))
    ELSE s

RECURSIVE stripPrefixesFrom(_, _)
stripPrefixesFrom(result, i) ==
    IF i > Len(VALID_TOKEN_PREFIXES) THEN result
    ELSE IF startsWith(result, VALID_TOKEN_PREFIXES[i])
         THEN stripPrefixesFrom(substring(result, Len(VALID_TOKEN_PREFIXES[i])), i + 1)
         ELSE stripPrefixesFrom(result, i + 1)

removeTokenPrefix(tokenName) == stripPrefixesFrom(stripEmoji(tokenName), 1)

isValidTokenName(name) ==
    LET trimmed == trim(name)
    IN  /\ ~startsWith(trimmed, <<"_">>)
        /\ ~startsWith(trimmed, <<"/">>)
        /\ Len(trimmed) # 0

(***************************************************************************)
(* The host document: a fixed node tree on two pages; the styling of the   *)
(* nodes (doc) is the part that changes.                                   *)
(***************************************************************************)
Pages == {"P1", "P2"}

NodeIds == {"A", "H", "F", "D", "B", "T", "R", "S", "E", "W", "G", "U"}

NodeType ==
    [n \in NodeIds \cup Pages \cup {"DOC"} |->
        CASE n \in {"A", "F", "G"} -> "FRAME"
          [] n = "H" -> "GROUP"
          [] n = "S" -> "SECTION"
          [] n \in {"D", "B", "E"} -> "RECTANGLE"
          [] n \in {"T", "R", "U", "W"} -> "TEXT"
          [] n \in Pages -> "PAGE"
          [] OTHER -> "DOCUMENT"]

Children ==
    [n \in NodeIds \cup Pages |->
        CASE n = "P1" -> <<"A", "R", "S">>
          [] n = "A" -> <<"H", "B", "T">>
          [] n = "S" -> <<"E", "W">>
          [] n = "H" -> <<"F">>
          [] n = "F" -> <<"D">>
          [] n = "P2" -> <<"G">>
          [] n = "G" -> <<"U">>
          [] OTHER -> <<>>]

Parent ==
    [n \in NodeIds \cup Pages \cup {"DOC"} |->
        CASE n \in {"A", "R", "S"} -> "P1"
          [] n \in {"H", "B", "T"} -> "A"
          [] n \in {"E", "W"} -> "S"
          [] n = "F" -> "H"
          [] n = "D" -> "F"
          [] n = "G" -> "P2"
          [] n = "U" -> "G"
          [] n \in Pages -> "DOC"
          [] OTHER -> Null]

\* length of node.characters of a text node
CharactersLength == [n \in NodeIds |-> IF n \in {"T", "R", "U", "W"} THEN 1 ELSE 0]

RECURSIVE PageOf(_)
PageOf(n) == IF n \in Pages THEN n ELSE PageOf(Parent[n])

isSceneNode(n) == NodeType[n] # "DOCUMENT" /\ NodeType[n] # "PAGE"

\* "fills" in node, "fillStyleId" in node, "setFillStyleIdAsync" in node
hasFills(n) == NodeType[n] \in {"FRAME", "RECTANGLE", "TEXT"}

\* "strokes" in node, "strokeStyleId" in node, "setStrokeStyleIdAsync" in node
hasStrokes(n) == NodeType[n] \in {"FRAME", "RECTANGLE", "TEXT"}

isContainerType(ty) == ty \in {"FRAME", "COMPONENT", "INSTANCE", "SECTION"}

\* the narrower test several handlers use (SECTION left out)
isFrameLike(n) == NodeType[n] \in {"FRAME", "COMPONENT", "INSTANCE"}

\* figma.getNodeByIdAsync
getNodeById(id) == IF id \in NodeIds \cup Pages THEN id ELSE Null

(***************************************************************************)
(* Style and variable registries of the document (read-only for the plugin)*)
(***************************************************************************)
Inter == <<"I","n","t","e","r">>
Roboto == <<"R","o","b","o","t","o">>
Regular == <<"R","e","g","u","l","a","r">>
Bold == <<"B","o","l","d">>

\* figma.mixed, where a font name is expected
MixedFont == [mixed |-> TRUE]

font(family, style) == [family |-> family, style |-> style]

PaintStyleIds == {"S_brand", "S_gray", "S_local", "S_grad", "S_draft"}
TextStyleIds == {"T_body", "T_rob", "T_head"}
StyleIds == PaintStyleIds \cup TextStyleIds
VariableIds == {"V_blue", "V_gap"}

StyleTable ==
    [id \in StyleIds |->
        CASE id = "S_brand" ->
                [id |-> id, type |-> "PAINT",
                 name |-> <<"B","r","a","n","d"," ","C","o","l","o","r","s","/","P","r","i","m","a","r","y">>,
                 paints |-> <<Solid(255, 0, 0)>>]
          [] id = "S_gray" ->
                [id |-> id, type |-> "PAINT",
                 name |-> <<"B","a","s","e","/","G","r","a","y","-","5","0","0">>,
                 paints |-> <<Solid(128, 128, 128)>>]
          [] id = "S_local" ->
                [id |-> id, type |-> "PAINT",
                 name |-> <<"L","o","c","a","l","/","R","e","d">>,
                 paints |-> <<Solid(204, 0, 0)>>]
          [] id = "S_grad" ->
                [id |-> id, type |-> "PAINT",
                 name |-> <<"B","a","s","e","/","F","a","d","e">>,
                 paints |-> <<Gradient>>]
          [] id = "S_draft" ->
                [id |-> id, type |-> "PAINT",
                 name |-> <<"_","d","r","a","f","t">>,
                 paints |-> <<Solid(0, 128, 0)>>]
          [] id = "T_body" ->
                [id |-> id, type |-> "TEXT",
                 name |-> <<"B","o","d","y">>,
                 fontName |-> [family |-> Inter, style |-> Regular],
                 fontSize |-> 16, fontWeight |-> 400, lineHeight |-> 24]
          [] id = "T_rob" ->
                [id |-> id, type |-> "TEXT",
                 name |-> <<"B","a","s","e","/","A","l","t">>,
                 fontName |-> [family |-> Roboto, style |-> Regular],
                 fontSize |-> 16, fontWeight |-> 400, lineHeight |-> 20]
          [] OTHER ->
                [id |-> id, type |-> "TEXT",
                 name |-> <<"H","e","a","d","i","n","g">>,
                 fontName |-> [family |-> Inter, style |-> Bold],
                 fontSize |-> 24, fontWeight |-> 700, lineHeight |-> 32]]

VariableTable ==
    [id \in VariableIds |->
        IF id = "V_blue"
        THEN [id |-> id, name |-> <<"B","a","s","e","/","B","l","u","e">>,
              resolvedType |-> "COLOR", value |-> <<0, 0, 255>>]
        ELSE [id |-> id, name |-> <<"G","a","p">>,
              resolvedType |-> "FLOAT", value |-> <<0, 0, 0>>]]

\* figma.getStyleByIdAsync: the style, or null when the id names none
getStyleById(id) == IF id \in StyleIds THEN StyleTable[id] ELSE NullRec

\* ids of styles whose lookup throws (the reference is stale); the lookup of
\* any other unknown id, such as that of a deleted style, returns null
StaleStyleIds == {"S_stale"}

styleLookupThrows(id) == id \in StaleStyleIds

\* figma.variables.getVariableByIdAsync(id).catch(() => null)
getVariableById(id) == IF id \in VariableIds THEN VariableTable[id] ELSE NullRec

\* figma.getLocalTextStylesAsync / the document's own styles
LocalTextStyles == <<"T_body", "T_rob", "T_head">>

\* figma.getLocalPaintStylesAsync: the paint styles the document defines
LocalPaintStyles == <<"S_brand", "S_gray", "S_local", "S_grad", "S_draft">>

(***************************************************************************)
(* Compliance predicates                                                   *)
(***************************************************************************)
\* typeof styleId === "string" && styleId !== ""
isBoundStyleId(styleId) == styleId # Mixed /\ styleId # Null /\ styleId # NoStyle

\* try { style = await figma.getStyleByIdAsync(styleId) } catch (e) { }:
\* the style, or nothing when the lookup returns null or throws
styleOrNothing(styleId) ==
    IF styleLookupThrows(styleId) THEN NullRec ELSE getStyleById(styleId)

\* the style slot s of node n resolves to a style object
slotStyle(d, n, isStroke) ==
    LET styleId == IF isStroke THEN d[n].strokeStyleId ELSE d[n].fillStyleId
    IN  IF isBoundStyleId(styleId) THEN styleOrNothing(styleId) ELSE NullRec

\* hasValidColorToken as it would be if the fill style spoke for both slots
hasValidColorTokenFillOnly(d, n, paint, isStroke) ==
    IF paint.type = "SOLID" /\ hasBoundColor(paint) THEN TRUE
    ELSE IF /\ ~typeStartsWithGradient(paint)
            /\ hasFills(n)
            /\ slotStyle(d, n, FALSE) # NullRec
         THEN hasValidPrefix(slotStyle(d, n, FALSE).name)
    ELSE FALSE

\* hasValidColorToken as it would be if a bound style were asked before the
\* bound variable
hasValidColorTokenStyleFirst(d, n, paint, isStroke) ==
    IF /\ ~typeStartsWithGradient(paint)
       /\ (IF isStroke THEN hasStrokes(n) ELSE hasFills(n))
       /\ slotStyle(d, n, isStroke) # NullRec
    THEN hasValidPrefix(slotStyle(d, n, isStroke).name)
    ELSE paint.type = "SOLID" /\ hasBoundColor(paint)

\* hasValidColorToken as it would be if a bound style id spoke for itself
\* when its style cannot be looked up
hasValidColorTokenUnresolved(d, n, paint, isStroke) ==
    LET styleId == IF isStroke THEN d[n].strokeStyleId ELSE d[n].fillStyleId
    IN  IF paint.type = "SOLID" /\ hasBoundColor(paint) THEN TRUE
        ELSE IF /\ ~typeStartsWithGradient(paint)
                /\ (IF isStroke THEN hasStrokes(n) ELSE hasFills(n))
                /\ isBoundStyleId(styleId)
             THEN IF slotStyle(d, n, isStroke) # NullRec
                  THEN hasValidPrefix(slotStyle(d, n, isStroke).name)
                  ELSE TRUE
        ELSE FALSE

hasValidColorToken(d, n, paint, isStroke) ==
    IF paint.type = "SOLID" /\ hasBoundColor(paint) THEN TRUE
    ELSE IF /\ ~isStroke
            /\ ~typeStartsWithGradient(paint)
            /\ hasFills(n)
            /\ slotStyle(d, n, FALSE) # NullRec
         THEN hasValidPrefix(slotStyle(d, n, FALSE).name)
    ELSE IF /\ isStroke
            /\ ~typeStartsWithGradient(paint)
            /\ hasStrokes(n)
            /\ slotStyle(d, n, TRUE) # NullRec
         THEN hasValidPrefix(slotStyle(d, n, TRUE).name)
    ELSE FALSE

\* hasValidTextToken as it would be if the name of the text style were held
\* against the allow-list, as the names of paint styles are
hasValidTextTokenPrefixed(d, n) ==
    /\ isBoundStyleId(d[n].textStyleId)
    /\ getStyleById(d[n].textStyleId) # NullRec
    /\ hasValidPrefix(getStyleById(d[n].textStyleId).name)

hasValidTextToken(d, n) == isBoundStyleId(d[n].textStyleId)

extractReadableWeight(fontStyle) ==
    LET styleLower == toLowerCase(fontStyle)
        has(w) == includes(styleLower, w)
    IN  IF has(<<"t","h","i","n">>) THEN <<"T","h","i","n">>
        ELSE IF has(<<"e","x","t","r","a","l","i","g","h","t">>) \/ has(<<"e","x","t","r","a"," ","l","i","g","h","t">>) THEN <<"E","x","t","r","a","L","i","g","h","t">>
        ELSE IF has(<<"l","i","g","h","t">>) /\ ~has(<<"e","x","t","r","a","l","i","g","h","t">>) THEN <<"L","i","g","h","t">>
        ELSE IF has(<<"m","e","d","i","u","m">>) THEN <<"M","e","d","i","u","m">>
        ELSE IF has(<<"s","e","m","i","b","o","l","d">>) \/ has(<<"s","e","m","i"," ","b","o","l","d">>) THEN <<"S","e","m","i","B","o","l","d">>
        ELSE IF has(<<"e","x","t","r","a","b","o","l","d">>) \/ has(<<"e","x","t","r","a"," ","b","o","l","d">>) THEN <<"E","x","t","r","a","B","o","l","d">>
        ELSE IF has(<<"b","o","l","d">>) /\ ~has(<<"s","e","m","i","b","o","l","d">>) /\ ~has(<<"e","x","t","r","a","b","o","l","d">>) THEN <<"B","o","l","d">>
        ELSE IF has(<<"b","l","a","c","k">>) \/ has(<<"h","e","a","v","y">>) THEN <<"B","l","a","c","k">>
        ELSE IF has(<<"r","e","g","u","l","a","r">>) \/ has(<<"n","o","r","m","a","l">>) THEN <<"R","e","g","u","l","a","r">>
        ELSE <<"R","e","g","u","l","a","r">>

(***************************************************************************)
(* Sequence helpers                                                        *)
(***************************************************************************)
RECURSIVE SortedSeq(_)
SortedSeq(S) ==
    IF S = {} THEN <<>>
    ELSE LET m == CHOOSE x \in S : \A y \in S : x <= y
         IN  <<m>> \o SortedSeq(S \ {m})

Range(s) == {s[i] : i \in 1..Len(s)}

removeAt(s, i) == SubSeq(s, 1, i - 1) \o SubSeq(s, i + 1, Len(s))

(***************************************************************************)
(* analyzeColors                                                           *)
(***************************************************************************)
SlotName(isStroke) == IF isStroke THEN <<"s","t","r","o","k","e">> ELSE <<"f","i","l","l">>

\* the map key as it would be if the slot were left out of it
colorKeyLabelOnly(label, isStroke) == label

colorKey(label, isStroke) == label \o <<"_">> \o SlotName(isStroke)

\* processPaint as it would be if every paint that is not solid were labelled
\* like a gradient
processPaintAnyKind(d, n, paint, idx, isStroke) ==
    IF paint.visible = FALSE THEN <<>>
    ELSE IF hasValidColorToken(d, n, paint, isStroke) THEN <<>>
    ELSE LET label == IF paint.type = "SOLID" THEN rgbToHex(paint.color)
                      ELSE <<"G","r","a","d","i","e","n","t","e">>
             style == slotStyle(d, n, isStroke)
             name == IF style # NullRec THEN style.name ELSE label
         IN  << [nodeId |-> n, paint |-> paint, paintIndex |-> idx,
                 isStroke |-> isStroke, label |-> label, name |-> name] >>

\* one paint of one node: the occurrence pushed into the map, or nothing
processPaint(d, n, paint, idx, isStroke) ==
    IF paint.visible = FALSE THEN <<>>
    ELSE IF paint.type \in {"IMAGE", "VIDEO", "PATTERN"} THEN <<>>
    ELSE IF hasValidColorToken(d, n, paint, isStroke) THEN <<>>
    ELSE IF paint.type # "SOLID" /\ ~isGradientPaint(paint) THEN <<>>
    ELSE LET label == IF paint.type = "SOLID" THEN rgbToHex(paint.color)
                      ELSE <<"G","r","a","d","i","e","n","t","e">>
             style == slotStyle(d, n, isStroke)
             name == IF style # NullRec THEN style.name ELSE label
         IN  << [nodeId |-> n, paint |-> paint, paintIndex |-> idx,
                 isStroke |-> isStroke, label |-> label, name |-> name] >>

RECURSIVE processPaints(_, _, _, _, _)
processPaints(d, n, paints, idx, isStroke) ==
    IF idx > Len(paints) THEN <<>>
    ELSE processPaint(d, n, paints[idx], idx, isStroke)
         \o processPaints(d, n, paints, idx + 1, isStroke)

RECURSIVE walkColors(_, _, _)
RECURSIVE walkColorsList(_, _, _)
walkColors(d, show, n) ==
    IF ~show /\ ~d[n].visible THEN <<>>
    ELSE (IF hasFills(n) THEN processPaints(d, n, d[n].fills, 1, FALSE) ELSE <<>>)
         \o (IF hasStrokes(n) THEN processPaints(d, n, d[n].strokes, 1, TRUE) ELSE <<>>)
         \o walkColorsList(d, show, Children[n])

walkColorsList(d, show, list) ==
    IF list = <<>> THEN <<>>
    ELSE (IF isSceneNode(Head(list)) THEN walkColors(d, show, Head(list)) ELSE <<>>)
         \o walkColorsList(d, show, Tail(list))

\* Array.from(map.values()).map(...): one group per key, in insertion order
groupColors(occs) ==
    LET keyOf(o) == colorKey(o.label, o.isStroke)
        firsts == {i \in 1..Len(occs) :
                      \A j \in 1..(i - 1) : keyOf(occs[j]) # keyOf(occs[i])}
        order == SortedSeq(firsts)
    IN  [g \in 1..Len(order) |->
            LET sameKey(o) == keyOf(o) = keyOf(occs[order[g]])
                nodePaints == SelectSeq(occs, sameKey)
            IN  [label |-> nodePaints[1].label, nodePaints |-> nodePaints]]

\* analyzeColors as it would be if it remembered the containers of the
\* analysis before and reported nothing for them a second time
analyzeColorsOnlyNew(d, show, nodes) ==
    [type |-> "result-colors",
     groups |-> IF nodes = analyzed THEN <<>>
                ELSE groupColors(walkColorsList(d, show, nodes))]

analyzeColors(d, show, nodes) ==
    [type |-> "result-colors", groups |-> groupColors(walkColorsList(d, show, nodes))]

(***************************************************************************)
(* analyzeTypography                                                       *)
(***************************************************************************)
\* node.fontWeight follows the font style of node.fontName
weightOf(fontName) == IF fontName.style = Bold THEN 700 ELSE 400

fontWeightOf(d, n) == weightOf(d[n].fontName)

typographyKey(family, style) == family \o <<"_">> \o style

processTextNode(d, n) ==
    IF hasValidTextToken(d, n) THEN <<>>
    ELSE LET fontName == IF d[n].fontName # MixedFont THEN d[n].fontName
                         ELSE font(<<"M","i","x","e","d">>, <<"M","i","x","e","d">>)
             style == [fontFamily |-> fontName.family,
                       fontStyle |-> fontName.style,
                       readableWeight |-> extractReadableWeight(fontName.style),
                       fontSize |-> d[n].fontSize,
                       \* the weight "Mixed" is held as 0
                       fontWeight |-> IF d[n].fontName # MixedFont
                                      THEN weightOf(d[n].fontName) ELSE 0,
                       lineHeight |-> d[n].lineHeight]
         IN  << [nodeId |-> n, style |-> style] >>

RECURSIVE walkTypography(_, _, _)
RECURSIVE walkTypographyList(_, _, _)
walkTypography(d, show, n) ==
    IF ~show /\ ~d[n].visible THEN <<>>
    ELSE (IF NodeType[n] = "TEXT" THEN processTextNode(d, n) ELSE <<>>)
         \o walkTypographyList(d, show, Children[n])

walkTypographyList(d, show, list) ==
    IF list = <<>> THEN <<>>
    ELSE (IF isSceneNode(Head(list)) THEN walkTypography(d, show, Head(list)) ELSE <<>>)
         \o walkTypographyList(d, show, Tail(list))

groupTypography(occs) ==
    LET keyOf(o) == typographyKey(o.style.fontFamily, o.style.fontStyle)
        firsts == {i \in 1..Len(occs) :
                      \A j \in 1..(i - 1) : keyOf(occs[j]) # keyOf(occs[i])}
        order == SortedSeq(firsts)
    IN  [g \in 1..Len(order) |->
            LET sameKey(o) == keyOf(o) = keyOf(occs[order[g]])
                nodeStyles == SelectSeq(occs, sameKey)
                first == nodeStyles[1].style
            IN  [style |-> first, nodeStyles |-> nodeStyles,
                 label |-> first.fontFamily \o <<" ">> \o first.readableWeight]]

analyzeTypography(d, show, nodes) ==
    [type |-> "result-typography",
     groups |-> groupTypography(walkTypographyList(d, show, nodes))]

\* the analysis of the active tab, as every handler calls it
analyzeTab(tab, d, show, nodes) ==
    IF tab = "colors" THEN analyzeColors(d, show, nodes)
    ELSE analyzeTypography(d, show, nodes)

(***************************************************************************)
(* Container resolution                                                    *)
(***************************************************************************)
RECURSIVE nearestContainer(_)
nearestContainer(n) ==
    IF n = Null THEN Null
    ELSE IF isContainerType(NodeType[n]) THEN n
    ELSE nearestContainer(Parent[n])

\* the containers of a selection as they would be collected if a container
\* were pushed for every selected node, also one that is in the list already
RECURSIVE framesFromAll(_, _)
framesFromAll(sel, frames) ==
    IF sel = <<>> THEN frames
    ELSE LET current == nearestContainer(Head(sel))
         IN  framesFromAll(Tail(sel),
                           IF current # Null
                           THEN Append(frames, current) ELSE frames)

RECURSIVE framesFrom(_, _)
framesFrom(sel, frames) ==
    IF sel = <<>> THEN frames
    ELSE LET current == nearestContainer(Head(sel))
         IN  framesFrom(Tail(sel),
                        IF current # Null /\ current \notin Range(frames)
                        THEN Append(frames, current) ELSE frames)

getValidFramesFromSelection(sel) == framesFrom(sel, <<>>)

\* selection.filter(n => FRAME | COMPONENT | INSTANCE)
frameLikeOf(ids) ==
    LET keep(id) == getNodeById(id) # Null /\ isFrameLike(id)
    IN  SelectSeq(ids, keep)

\* the containers get-suggested-tokens, toggle-hidden and reanalyze work on:
\* the selected frames or, when none is selected, the rootFrameIds that resolve
targetContainers(sel, roots) ==
    IF frameLikeOf(sel) # <<>> THEN frameLikeOf(sel) ELSE frameLikeOf(roots)

\* the containers switch-tab works on
switchTabContainers(sel, roots) ==
    IF sel = <<>> THEN <<>>
    ELSE IF frameLikeOf(sel) # <<>> THEN frameLikeOf(sel)
    ELSE IF frameLikeOf(getValidFramesFromSelection(sel)) # <<>>
         THEN frameLikeOf(getValidFramesFromSelection(sel))
    ELSE frameLikeOf(roots)

(***************************************************************************)
(* Steps of the host: the user selects nodes or opens another page, a      *)
(* timer a handler waits on runs out.                                      *)
(***************************************************************************)
quiet == outbox' = <<>> /\ console' = <<>>

noAnalysis == analyzed' = <<>>

keepHistory ==
    /\ request' = NullRec
    /\ UNCHANGED <<applied, roundTrip, colorCacheOrigin, textCacheOrigin, edits>>

\* a selection write queues one selectionchange event when the selection changes
queueSelectionChange(newSel) ==
    pendingSel' = IF newSel # selection THEN pendingSel + 1 ELSE pendingSel

UserSelect(sel) ==
    /\ sel # selection
    /\ \A i \in 1..Len(sel) : PageOf(sel[i]) = currentPage
    /\ pendingSel < MaxPending
    /\ selection' = sel
    /\ pendingSel' = pendingSel + 1
    /\ quiet /\ noAnalysis /\ keepHistory
    /\ UNCHANGED <<doc, currentPage, pluginVars>>

\* the page opened has nothing selected; whether the host reports that as a
\* selection change is left open
UserChangePage(p) ==
    /\ p # currentPage
    /\ currentPage' = p
    /\ selection' = <<>>
    /\ \/ pendingSel' = pendingSel
       \/ /\ selection # <<>>
          /\ pendingSel < MaxPending
          /\ pendingSel' = pendingSel + 1
    /\ quiet /\ noAnalysis /\ keepHistory
    /\ UNCHANGED <<doc, pluginVars>>

(***************************************************************************)
(* figma.on("selectionchange")                                             *)
(***************************************************************************)
\* the selectionchange handler as it would be if it cleared the flag itself
\* when it ignores an event
SelectionChangeClearsFlag ==
    /\ pendingSel > 0
    /\ pendingSel' = pendingSel - 1
    /\ LET containers == getValidFramesFromSelection(selection)
           ignored == ignoringSelectionChange
           cleared == ~ignored /\ selection = <<>>
           resolved == ~ignored /\ selection # <<>> /\ containers # <<>>
       IN  /\ rootFrameIds' = IF cleared THEN <<>>
                              ELSE IF resolved THEN containers
                              ELSE rootFrameIds
           /\ rootFrameId' = IF cleared THEN Null
                             ELSE IF resolved THEN containers[1]
                             ELSE rootFrameId
           /\ outbox' =
                IF cleared THEN << [type |-> "empty", clearAll |-> TRUE] >>
                ELSE IF resolved
                THEN << [type |-> "selection-changed"] >>
                     \o (IF containers # rootFrameIds
                         THEN << [type |-> "frame-changed"] >> ELSE <<>>)
                     \o << analyzeTab(currentTab, doc, showHiddenElements, containers) >>
                ELSE <<>>
           /\ console' = IF ignored THEN <<"SELECTION CHANGED", "IGNORE CHANGED">>
                         ELSE <<"SELECTION CHANGED">>
           /\ analyzed' = IF resolved THEN containers ELSE <<>>
    /\ ignoringSelectionChange' = FALSE
    /\ keepHistory
    /\ UNCHANGED <<doc, currentPage, selection, showHiddenElements, currentTab,
                   initialSelectionIds, cachedColorTokens,
                   cachedTextTokens, cachedPageId, originalNodeStates, suspended>>

\* the selectionchange handler as it would be if an empty selection left the
\* root containers as they are
SelectionChangeKeepsRoots ==
    /\ pendingSel > 0
    /\ pendingSel' = pendingSel - 1
    /\ LET containers == getValidFramesFromSelection(selection)
           ignored == ignoringSelectionChange
           cleared == ~ignored /\ selection = <<>>
           resolved == ~ignored /\ selection # <<>> /\ containers # <<>>
       IN  /\ rootFrameIds' = IF resolved THEN containers ELSE rootFrameIds
           /\ rootFrameId' = IF resolved THEN containers[1] ELSE rootFrameId
           /\ outbox' =
                IF cleared THEN << [type |-> "empty", clearAll |-> TRUE] >>
                ELSE IF resolved
                THEN << [type |-> "selection-changed"] >>
                     \o (IF containers # rootFrameIds
                         THEN << [type |-> "frame-changed"] >> ELSE <<>>)
                     \o << analyzeTab(currentTab, doc, showHiddenElements, containers) >>
                ELSE <<>>
           /\ console' = IF ignored THEN <<"SELECTION CHANGED", "IGNORE CHANGED">>
                         ELSE <<"SELECTION CHANGED">>
           /\ analyzed' = IF resolved THEN containers ELSE <<>>
    /\ keepHistory
    /\ UNCHANGED <<doc, currentPage, selection, showHiddenElements, currentTab,
                   ignoringSelectionChange, initialSelectionIds, cachedColorTokens,
                   cachedTextTokens, cachedPageId, originalNodeStates, suspended>>

SelectionChange ==
    /\ pendingSel > 0
    /\ pendingSel' = pendingSel - 1
    /\ LET containers == getValidFramesFromSelection(selection)
           ignored == ignoringSelectionChange
           cleared == ~ignored /\ selection = <<>>
           resolved == ~ignored /\ selection # <<>> /\ containers # <<>>
       IN  /\ rootFrameIds' = IF cleared THEN <<>>
                              ELSE IF resolved THEN containers
                              ELSE rootFrameIds
           /\ rootFrameId' = IF cleared THEN Null
                             ELSE IF resolved THEN containers[1]
                             ELSE rootFrameId
           /\ outbox' =
                IF cleared THEN << [type |-> "empty", clearAll |-> TRUE] >>
                ELSE IF resolved
                THEN << [type |-> "selection-changed"] >>
                     \o (IF containers # rootFrameIds
                         THEN << [type |-> "frame-changed"] >> ELSE <<>>)
                     \o << analyzeTab(currentTab, doc, showHiddenElements, containers) >>
                ELSE <<>>
           /\ console' = IF ignored THEN <<"SELECTION CHANGED", "IGNORE CHANGED">>
                         ELSE <<"SELECTION CHANGED">>
           /\ analyzed' = IF resolved THEN containers ELSE <<>>
    /\ keepHistory
    /\ UNCHANGED <<doc, currentPage, selection, showHiddenElements, currentTab,
                   ignoringSelectionChange, initialSelectionIds, cachedColorTokens,
                   cachedTextTokens, cachedPageId, originalNodeStates, suspended>>

(***************************************************************************)
(* select-node, select-multiple-nodes: the flag is set, the selection is   *)
(* written, and the handler waits 50 ms before it clears the flag.         *)
(***************************************************************************)
SelectNode(nodeId) ==
    /\ Len(suspended) < MaxSuspended
    /\ pendingSel < MaxPending
    /\ LET node == getNodeById(nodeId)
           ok == node # Null /\ isSceneNode(node)
       IN  /\ ignoringSelectionChange' = IF ok THEN TRUE ELSE ignoringSelectionChange
           /\ selection' = IF ok THEN <<node>> ELSE selection
           /\ queueSelectionChange(IF ok THEN <<node>> ELSE selection)
           /\ suspended' = IF ok THEN Append(suspended, [kind |-> "select-node"])
                           ELSE suspended
    /\ quiet /\ noAnalysis /\ keepHistory
    /\ UNCHANGED <<doc, currentPage, showHiddenElements, currentTab, rootFrameId,
                   rootFrameIds, initialSelectionIds, cachedColorTokens,
                   cachedTextTokens, cachedPageId, originalNodeStates>>

SelectMultipleNodes(nodeIds) ==
    /\ Len(suspended) < MaxSuspended
    /\ pendingSel < MaxPending
    /\ LET valid(id) == getNodeById(id) # Null /\ isSceneNode(id)
           safe(id) == NodeType[id] = "TEXT" => CharactersLength[id] > 0
           safeNodes == SelectSeq(SelectSeq(nodeIds, valid), safe)
           newSel == IF safeNodes # <<>> THEN safeNodes ELSE selection
       IN  /\ ignoringSelectionChange' = TRUE
           /\ selection' = newSel
           /\ queueSelectionChange(newSel)
           /\ suspended' = Append(suspended, [kind |-> "select-multiple-nodes"])
    /\ quiet /\ noAnalysis /\ keepHistory
    /\ UNCHANGED <<doc, currentPage, showHiddenElements, currentTab, rootFrameId,
                   rootFrameIds, initialSelectionIds, cachedColorTokens,
                   cachedTextTokens, cachedPageId, originalNodeStates>>

\* the 50 ms timer of select-node / select-multiple-nodes runs out
SelectTimeout(i) ==
    /\ i \in 1..Len(suspended)
    /\ suspended[i].kind \in {"select-node", "select-multiple-nodes"}
    /\ suspended' = removeAt(suspended, i)
    /\ ignoringSelectionChange' = FALSE
    /\ quiet /\ noAnalysis /\ keepHistory
    /\ UNCHANGED <<hostVars, showHiddenElements, currentTab, rootFrameId,
                   rootFrameIds, initialSelectionIds, cachedColorTokens,
                   cachedTextTokens, cachedPageId, originalNodeStates>>

(***************************************************************************)
(* back-to-list                                                            *)
(***************************************************************************)
restorableNodes(ids) ==
    LET ok(id) == getNodeById(id) # Null /\ isSceneNode(id)
    IN  IF ~ids.some THEN <<>> ELSE SelectSeq(ids.v, ok)

\* up to the 100 ms wait; without nodes to restore the handler ends at once
BackToList ==
    /\ Len(suspended) < MaxSuspended
    /\ pendingSel < MaxPending
    /\ LET nodes == restorableNodes(initialSelectionIds)
       IN  IF nodes # <<>>
           THEN /\ ignoringSelectionChange' = TRUE
                /\ selection' = nodes
                /\ queueSelectionChange(nodes)
                /\ suspended' = Append(suspended,
                                       [kind |-> "back-to-list", nodes |-> nodes])
                /\ UNCHANGED <<initialSelectionIds, originalNodeStates>>
           ELSE /\ initialSelectionIds' = None
                /\ originalNodeStates' = <<>>
                /\ UNCHANGED <<ignoringSelectionChange, selection, pendingSel,
                               suspended>>
    /\ outbox' = <<>>
    /\ console' = <<"Voltando para lista...">>
    /\ noAnalysis /\ keepHistory
    /\ UNCHANGED <<doc, currentPage, showHiddenElements, currentTab, rootFrameId,
                   rootFrameIds, cachedColorTokens, cachedTextTokens, cachedPageId>>

\* back-to-list after the wait as it would be if the snapshots outlived it
BackToListResumeKeepsSnapshots(i) ==
    /\ i \in 1..Len(suspended)
    /\ suspended[i].kind = "back-to-list"
    /\ suspended' = removeAt(suspended, i)
    /\ ignoringSelectionChange' = FALSE
    /\ LET nodes == suspended[i].nodes
           validNodes == frameLikeOf(nodes)
           containers == IF validNodes # <<>> THEN validNodes
                         ELSE frameLikeOf(rootFrameIds)
       IN  /\ outbox' = IF containers # <<>>
                        THEN << analyzeTab(currentTab, doc, showHiddenElements,
                                           containers) >>
                        ELSE <<>>
           /\ analyzed' = containers
           /\ console' = IF validNodes # <<>> THEN <<"Re-analisando frames...">>
                         ELSE <<>>
    /\ initialSelectionIds' = None
    /\ originalNodeStates' = originalNodeStates
    /\ keepHistory
    /\ UNCHANGED <<hostVars, showHiddenElements, currentTab, rootFrameId,
                   rootFrameIds, cachedColorTokens, cachedTextTokens, cachedPageId>>

\* after the wait: the flag is cleared, the restored frames are analysed,
\* the initial selection and the snapshots are dropped
BackToListResume(i) ==
    /\ i \in 1..Len(suspended)
    /\ suspended[i].kind = "back-to-list"
    /\ suspended' = removeAt(suspended, i)
    /\ ignoringSelectionChange' = FALSE
    /\ LET nodes == suspended[i].nodes
           validNodes == frameLikeOf(nodes)
           containers == IF validNodes # <<>> THEN validNodes
                         ELSE frameLikeOf(rootFrameIds)
       IN  /\ outbox' = IF containers # <<>>
                        THEN << analyzeTab(currentTab, doc, showHiddenElements,
                                           containers) >>
                        ELSE <<>>
           /\ analyzed' = containers
           /\ console' = IF validNodes # <<>> THEN <<"Re-analisando frames...">>
                         ELSE <<>>
    /\ initialSelectionIds' = None
    /\ originalNodeStates' = <<>>
    /\ keepHistory
    /\ UNCHANGED <<hostVars, showHiddenElements, currentTab, rootFrameId,
                   rootFrameIds, cachedColorTokens, cachedTextTokens, cachedPageId>>

(***************************************************************************)
(* save-initial-selection, enter-list-view                                 *)
(***************************************************************************)
SaveInitialSelection ==
    /\ initialSelectionIds' = IF ~initialSelectionIds.some THEN Some(selection)
                              ELSE initialSelectionIds
    /\ quiet /\ noAnalysis /\ keepHistory
    /\ UNCHANGED <<hostVars, showHiddenElements, currentTab,
                   ignoringSelectionChange, rootFrameId, rootFrameIds,
                   cachedColorTokens, cachedTextTokens, cachedPageId,
                   originalNodeStates, suspended>>

EnterListView ==
    /\ initialSelectionIds' = Some(selection)
    /\ LET containers == getValidFramesFromSelection(selection)
       IN  /\ rootFrameIds' = IF containers # <<>> THEN containers ELSE rootFrameIds
           /\ rootFrameId' = IF containers # <<>> THEN containers[1] ELSE rootFrameId
           /\ console' = IF containers # <<>>
                         THEN <<"selecao inicial atualizada", "rootFrameIds atualizados">>
                         ELSE <<"selecao inicial atualizada">>
    /\ outbox' = <<>>
    /\ noAnalysis /\ keepHistory
    /\ UNCHANGED <<hostVars, showHiddenElements, currentTab,
                   ignoringSelectionChange, cachedColorTokens, cachedTextTokens,
                   cachedPageId, originalNodeStates, suspended>>

(***************************************************************************)
(* toggle-hidden, switch-tab, reanalyze                                    *)
(***************************************************************************)
ToggleHidden(value) ==
    /\ showHiddenElements' = value
    /\ LET validNodes == targetContainers(selection, rootFrameIds)
       IN  /\ outbox' = IF validNodes # <<>>
                        THEN << analyzeTab(currentTab, doc, value, validNodes) >>
                        ELSE <<>>
           /\ analyzed' = validNodes
    /\ console' = <<>>
    /\ keepHistory
    /\ UNCHANGED <<hostVars, currentTab, ignoringSelectionChange, rootFrameId,
                   rootFrameIds, initialSelectionIds, cachedColorTokens,
                   cachedTextTokens, cachedPageId, originalNodeStates, suspended>>

SwitchTab(tab) ==
    /\ currentTab' = tab
    /\ LET validNodes == switchTabContainers(selection, rootFrameIds)
       IN  /\ outbox' = IF validNodes = <<>>
                        THEN << [type |-> "empty", clearAll |-> TRUE] >>
                        ELSE << analyzeTab(tab, doc, showHiddenElements, validNodes) >>
           /\ analyzed' = validNodes
    /\ console' = <<>>
    /\ keepHistory
    /\ UNCHANGED <<hostVars, showHiddenElements, ignoringSelectionChange,
                   rootFrameId, rootFrameIds, initialSelectionIds, cachedColorTokens,
                   cachedTextTokens, cachedPageId, originalNodeStates, suspended>>

Reanalyze ==
    /\ LET validNodes == targetContainers(selection, rootFrameIds)
       IN  /\ outbox' = IF validNodes # <<>>
                        THEN << analyzeTab(currentTab, doc, showHiddenElements,
                                           validNodes) >>
                        ELSE <<>>
           /\ analyzed' = validNodes
    /\ console' = <<>>
    /\ keepHistory
    /\ UNCHANGED <<hostVars, showHiddenElements, currentTab,
                   ignoringSelectionChange, rootFrameId, rootFrameIds,
                   initialSelectionIds, cachedColorTokens, cachedTextTokens,
                   cachedPageId, originalNodeStates, suspended>>

(***************************************************************************)
(* Writes of the host API the handlers use                                 *)
(***************************************************************************)
\* a style id setFillStyleIdAsync / setStrokeStyleIdAsync accepts
paintStyleAssignable(id) ==
    id = NoStyle \/ (getStyleById(id) # NullRec /\ getStyleById(id).type = "PAINT")

\* node.setFillStyleIdAsync(id): binds the style and shows its paints
setFillStyleId(d, n, id) ==
    [d EXCEPT ![n] = [@ EXCEPT !.fillStyleId = id,
                               !.fills = IF id = NoStyle THEN @
                                         ELSE StyleTable[id].paints]]

setStrokeStyleId(d, n, id) ==
    [d EXCEPT ![n] = [@ EXCEPT !.strokeStyleId = id,
                               !.strokes = IF id = NoStyle THEN @
                                           ELSE StyleTable[id].paints]]

setSlotStyleId(d, n, isStroke, id) ==
    IF isStroke THEN setStrokeStyleId(d, n, id) ELSE setFillStyleId(d, n, id)

\* node.setTextStyleIdAsync(id): binds the style and takes over its font
setTextStyleId(d, n, id) ==
    IF id = NoStyle THEN [d EXCEPT ![n].textStyleId = NoStyle]
    ELSE [d EXCEPT ![n] = [@ EXCEPT !.textStyleId = id,
                                    !.fontName = StyleTable[id].fontName,
                                    !.fontSize = StyleTable[id].fontSize,
                                    !.lineHeight = StyleTable[id].lineHeight]]

\* figma.variables.setBoundVariableForPaint(paint, "color", variable)
setBoundVariableForPaint(paint, variable) ==
    [paint EXCEPT !.boundVariables = variable.id, !.color = variable.value]

\* paints.map((p, i) => i === 0 ? setBoundVariableForPaint(p, ...) : p)
bindFirstPaint(paints, variable) ==
    [paints EXCEPT ![1] = setBoundVariableForPaint(@, variable)]

slotPaints(d, n, isStroke) == IF isStroke THEN d[n].strokes ELSE d[n].fills

hasSlot(n, isStroke) == IF isStroke THEN hasStrokes(n) ELSE hasFills(n)

setSlotPaints(d, n, isStroke, paints) ==
    IF isStroke THEN [d EXCEPT ![n].strokes = paints]
    ELSE [d EXCEPT ![n].fills = paints]

\* the node has a paint in the slot that analyzeColors would report
nonCompliantSlot(d, n, isStroke) ==
    hasSlot(n, isStroke) /\ processPaints(d, n, slotPaints(d, n, isStroke), 1, isStroke) # <<>>

slotTag(isStroke) == IF isStroke THEN "stroke" ELSE "fill"

updateDetail(nodeId, styleName, styleId) ==
    [type |-> "update-detail", nodeId |-> nodeId, styleName |-> styleName,
     styleId |-> styleId]

(***************************************************************************)
(* save-original-state                                                     *)
(***************************************************************************)
\* the OriginalNodeState of a node: a field the handler does not set is absent
snapshotOf(d, n) ==
    LET scene == isSceneNode(n)
        text == NodeType[n] = "TEXT"
    IN  (IF scene /\ hasFills(n)
         THEN [fillStyleId |-> d[n].fillStyleId, fills |-> d[n].fills] ELSE <<>>)
        @@ (IF scene /\ hasStrokes(n)
            THEN [strokeStyleId |-> d[n].strokeStyleId, strokes |-> d[n].strokes]
            ELSE <<>>)
        @@ (IF text
            THEN [textStyleId |-> d[n].textStyleId, fontName |-> d[n].fontName,
                  fontSize |-> d[n].fontSize, lineHeight |-> d[n].lineHeight]
            ELSE <<>>)

SaveOriginalState(nodeIds) ==
    /\ LET found == {id \in Range(nodeIds) : getNodeById(id) # Null}
       IN  originalNodeStates' =
               [id \in (DOMAIN originalNodeStates) \cup found |->
                   IF id \in found THEN snapshotOf(doc, id)
                   ELSE originalNodeStates[id]]
    /\ quiet /\ noAnalysis /\ keepHistory
    /\ UNCHANGED <<hostVars, showHiddenElements, currentTab,
                   ignoringSelectionChange, rootFrameId, rootFrameIds,
                   initialSelectionIds, cachedColorTokens, cachedTextTokens,
                   cachedPageId, suspended>>

(***************************************************************************)
(* apply-token-multiple                                                    *)
(***************************************************************************)
\* one pass of the for loop; acc.thrown: an earlier pass threw, the handler
\* has ended
applyMultipleOne(acc, nodeId, styleId, isStroke) ==
    LET node == getNodeById(nodeId)
        variable == getVariableById(styleId)
        style == getStyleById(styleId)
        d == acc.d
    IN  IF acc.thrown THEN acc
        ELSE IF node = Null \/ ~isSceneNode(node) THEN acc
        ELSE IF variable # NullRec /\ variable.resolvedType = "COLOR"
        THEN LET paints == slotPaints(d, node, isStroke)
                 can == hasSlot(node, isStroke) /\ Len(paints) > 0
                 name == removeTokenPrefix(variable.name)
             IN  IF can /\ paints[1].type # "SOLID"
                 THEN [acc EXCEPT !.thrown = TRUE]
                 ELSE [d |-> IF can
                             THEN setSlotPaints(d, node, isStroke,
                                                bindFirstPaint(paints, variable))
                             ELSE d,
                       msgs |-> Append(acc.msgs, updateDetail(node, name, variable.id)),
                       bound |-> IF can THEN Append(acc.bound, node) ELSE acc.bound,
                       thrown |-> FALSE,
                       last |-> name]
        ELSE IF style = NullRec \/ style.type # "PAINT" THEN acc
        ELSE LET can == hasSlot(node, isStroke)
                 name == removeTokenPrefix(style.name)
             IN  [d |-> IF can THEN setSlotStyleId(d, node, isStroke, styleId) ELSE d,
                  msgs |-> Append(acc.msgs, updateDetail(node, name, style.id)),
                  bound |-> IF can THEN Append(acc.bound, node) ELSE acc.bound,
                  thrown |-> FALSE,
                  last |-> name]

RECURSIVE applyMultipleAll(_, _, _, _)
applyMultipleAll(acc, nodeIds, styleId, isStroke) ==
    IF nodeIds = <<>> THEN acc
    ELSE applyMultipleAll(applyMultipleOne(acc, Head(nodeIds), styleId, isStroke),
                          Tail(nodeIds), styleId, isStroke)

\* history: the (node, slot) pairs the latest edit is an apply to, for the
\* nodes that were non-compliant in the slot before it
appliedAfter(nodeIds, bound, isStroke) ==
    {<<n, slotTag(isStroke)>> : n \in {m \in Range(bound) :
                                             nonCompliantSlot(doc, m, isStroke)}}

\* history: the apply half of an apply / remove pair, on the first node bound
roundTripAfter(bound, kind, styleId, handler) ==
    IF bound = <<>> THEN NullRec
    ELSE [node |-> bound[1], kind |-> kind, token |-> styleId, via |-> handler,
          before |-> doc[bound[1]],
          saved |-> bound[1] \in DOMAIN originalNodeStates,
          phase |-> "applied"]

ApplyTokenMultiple(nodeIds, styleId, isStroke) ==
    /\ edits < MaxEdits
    /\ LET res == applyMultipleAll([d |-> doc, msgs |-> <<>>, bound |-> <<>>,
                                    thrown |-> FALSE, last |-> <<styleId>>],
                                   nodeIds, styleId, isStroke)
       IN  /\ doc' = res.d
           /\ outbox' = IF res.thrown THEN res.msgs
                        ELSE Append(res.msgs,
                                    [type |-> "token-applied-success",
                                     styleName |-> res.last, styleId |-> styleId])
           /\ applied' = appliedAfter(nodeIds, res.bound, isStroke)
           /\ roundTrip' = roundTripAfter(res.bound, slotTag(isStroke), styleId,
                                          "apply-token-multiple")
    /\ console' = <<>>
    /\ noAnalysis
    /\ request' = NullRec
    /\ edits' = edits + 1
    /\ UNCHANGED <<currentPage, selection, pendingSel, pluginVars,
                   colorCacheOrigin, textCacheOrigin>>

(***************************************************************************)
(* apply-token                                                             *)
(***************************************************************************)
\* the callback Promise.all runs for one node; a throw in it rejects the
\* whole (acc.thrown) but the callbacks of the other nodes still run
applyOne(acc, node, styleId, isStroke, isText, variable) ==
    LET d == acc.d
        style == getStyleById(styleId)
        rawName == IF variable # NullRec THEN variable.name
                   ELSE IF style # NullRec THEN style.name
                   ELSE <<styleId>>
        detail == updateDetail(node, removeTokenPrefix(rawName), styleId)
    IN  IF isText /\ NodeType[node] = "TEXT"
        THEN LET can == style # NullRec /\ style.type = "TEXT"
             IN  [d |-> IF can THEN setTextStyleId(d, node, styleId) ELSE d,
                  msgs |-> Append(acc.msgs, detail),
                  bound |-> IF can THEN Append(acc.bound, node) ELSE acc.bound,
                  thrown |-> acc.thrown]
        ELSE IF variable # NullRec /\ variable.resolvedType = "COLOR"
        THEN LET paints == slotPaints(d, node, isStroke)
                 can == hasSlot(node, isStroke) /\ Len(paints) > 0
             IN  IF can /\ paints[1].type # "SOLID"
                 THEN [acc EXCEPT !.thrown = TRUE]
                 ELSE [d |-> IF can
                             THEN setSlotPaints(d, node, isStroke,
                                                bindFirstPaint(paints, variable))
                             ELSE d,
                       msgs |-> Append(acc.msgs, detail),
                       bound |-> IF can THEN Append(acc.bound, node) ELSE acc.bound,
                       thrown |-> acc.thrown]
        ELSE LET can == hasSlot(node, isStroke)
             IN  IF can /\ ~paintStyleAssignable(styleId)
                 THEN [acc EXCEPT !.thrown = TRUE]
                 ELSE [d |-> IF can THEN setSlotStyleId(d, node, isStroke, styleId)
                             ELSE d,
                       msgs |-> Append(acc.msgs, detail),
                       bound |-> IF can THEN Append(acc.bound, node) ELSE acc.bound,
                       thrown |-> acc.thrown]

RECURSIVE applyAll(_, _, _, _, _, _)
applyAll(acc, nodes, styleId, isStroke, isText, variable) ==
    IF nodes = <<>> THEN acc
    ELSE applyAll(applyOne(acc, Head(nodes), styleId, isStroke, isText, variable),
                  Tail(nodes), styleId, isStroke, isText, variable)

ApplyToken(nodeIds, styleId, isStroke, isText) ==
    /\ edits < MaxEdits
    /\ LET valid(id) == getNodeById(id) # Null /\ isSceneNode(id)
           validNodes == SelectSeq(nodeIds, valid)
           variable == IF ~isText THEN getVariableById(styleId) ELSE NullRec
           style == getStyleById(styleId)
           rawName == IF variable # NullRec THEN variable.name
                      ELSE IF style # NullRec THEN style.name
                      ELSE <<styleId>>
           res == applyAll([d |-> doc, msgs |-> <<>>, bound |-> <<>>,
                            thrown |-> FALSE],
                           validNodes, styleId, isStroke, isText, variable)
       IN  /\ doc' = res.d
           /\ outbox' = IF res.thrown
                        THEN Append(res.msgs, [type |-> "token-applied-error"])
                        ELSE Append(res.msgs,
                                    [type |-> "token-applied-success",
                                     styleName |-> removeTokenPrefix(rawName),
                                     styleId |-> styleId])
           /\ applied' = IF isText THEN {}
                         ELSE appliedAfter(validNodes, res.bound, isStroke)
           /\ roundTrip' = roundTripAfter(res.bound,
                                          IF isText THEN "text" ELSE slotTag(isStroke),
                                          styleId, "apply-token")
    /\ console' = <<>>
    /\ noAnalysis
    /\ request' = NullRec
    /\ edits' = edits + 1
    /\ UNCHANGED <<currentPage, selection, pendingSel, pluginVars,
                   colorCacheOrigin, textCacheOrigin>>

(***************************************************************************)
(* apply-typography-token-multiple                                         *)
(***************************************************************************)
AllFonts == {font(Inter, Regular), font(Inter, Bold), font(Roboto, Regular)}

\* the fonts of the ranges of a text node whose fontName is figma.mixed
MixedFonts == {font(Inter, Regular), font(Inter, Bold)}

fontsOf(d, n) == IF d[n].fontName = MixedFont THEN MixedFonts ELSE {d[n].fontName}

\* the host's fonts when a handler starts: loaded, the fonts loadFontAsync
\* has loaded for the plugin; missing, the fonts it rejects
FontsReady == [loaded |-> AllFonts, missing |-> {}]

\* figma.loadFontAsync(f)
loadFontThrows(fonts, f) == f \in fonts.missing

loadFont(fonts, f) == [fonts EXCEPT !.loaded = @ \cup {f}]

\* node.setTextStyleIdAsync(styleId) rejects a write to a text node while a
\* font of the node, or the font of the style, is not loaded
setTextStyleIdThrows(d, n, style, fonts) ==
    ~((fontsOf(d, n) \cup {style.fontName}) \subseteq fonts.loaded)

\* the decimal digits of a count, as template literals print it
toString(k) ==
    IF k < 10
    THEN << <<"0","1","2","3","4","5","6","7","8","9">>[k + 1] >>
    ELSE << <<"0","1","2","3","4","5","6","7","8","9">>[(k \div 10) + 1],
            <<"0","1","2","3","4","5","6","7","8","9">>[(k % 10) + 1] >>

fontNotAvailable(k) ==
    <<" ","(","F","o","n","t","e"," ","n","a","o"," ","d","i","s","p","o","n",
      "i","v","e","l"," ","e","m"," ">> \o toString(k)
    \o <<" ","e","l","e","m","e","n","t","o","(","s",")",")">>

\* one pass of the for loop, with the fallback of its catch block left out
applyTypographyOneNoFallback(acc, nodeId, style) ==
    LET node == getNodeById(nodeId)
        d == acc.d
    IN  IF node = Null \/ NodeType[node] # "TEXT" THEN acc
        ELSE LET styleFontFails == loadFontThrows(acc.fonts, style.fontName)
                 f1 == IF styleFontFails THEN acc.fonts
                       ELSE loadFont(acc.fonts, style.fontName)
                 firstThrows == styleFontFails
                                \/ setTextStyleIdThrows(d, node, style, f1)
             IN  IF ~firstThrows
                 THEN [acc EXCEPT !.d = setTextStyleId(d, node, style.id),
                                  !.msgs = Append(@, updateDetail(node, style.name,
                                                                  style.id)),
                                  !.bound = Append(@, node),
                                  !.fonts = f1]
                 ELSE [acc EXCEPT !.errorNodes = Append(@, node), !.fonts = f1]

\* one pass of the for loop: the first attempt with the font of the style,
\* and in its catch block the second one with the font of the node
applyTypographyOne(acc, nodeId, style) ==
    LET node == getNodeById(nodeId)
        d == acc.d
    IN  IF node = Null \/ NodeType[node] # "TEXT" THEN acc
        ELSE LET styleFontFails == loadFontThrows(acc.fonts, style.fontName)
                 f1 == IF styleFontFails THEN acc.fonts
                       ELSE loadFont(acc.fonts, style.fontName)
                 firstThrows == styleFontFails
                                \/ setTextStyleIdThrows(d, node, style, f1)
                 currentFont == IF d[node].fontName # MixedFont THEN d[node].fontName
                                ELSE font(Inter, Regular)
                 currentFails == loadFontThrows(f1, currentFont)
                 f2 == IF currentFails THEN f1 ELSE loadFont(f1, currentFont)
                 fallbackThrows == currentFails
                                   \/ setTextStyleIdThrows(d, node, style, f2)
             IN  IF ~firstThrows
                 THEN [acc EXCEPT !.d = setTextStyleId(d, node, style.id),
                                  !.msgs = Append(@, updateDetail(node, style.name,
                                                                  style.id)),
                                  !.bound = Append(@, node),
                                  !.fonts = f1]
                 ELSE IF ~fallbackThrows
                 THEN [acc EXCEPT !.d = setTextStyleId(d, node, style.id),
                                  !.bound = Append(@, node),
                                  !.errorNodes = Append(@, node),
                                  !.fonts = f2]
                 ELSE [acc EXCEPT !.errorNodes = Append(@, node),
                                  !.fonts = f2,
                                  !.console = Append(@, "Erro mesmo com fallback")]

RECURSIVE applyTypographyAll(_, _, _)
applyTypographyAll(acc, nodeIds, style) ==
    IF nodeIds = <<>> THEN acc
    ELSE applyTypographyAll(applyTypographyOne(acc, Head(nodeIds), style),
                            Tail(nodeIds), style)

\* fonts: the host's fonts when the handler starts
ApplyTypographyTokenMultiple(nodeIds, styleId, fonts) ==
    /\ edits < MaxEdits
    /\ LET style == getStyleById(styleId)
           isTextStyle == style # NullRec /\ style.type = "TEXT"
           start == [d |-> doc, msgs |-> <<>>, bound |-> <<>>, errorNodes |-> <<>>,
                     fonts |-> fonts, console |-> <<>>]
           res == IF isTextStyle THEN applyTypographyAll(start, nodeIds, style)
                  ELSE start
           successCount == Len(res.bound)
       IN  /\ doc' = res.d
           /\ outbox' =
                IF ~isTextStyle THEN << [type |-> "token-applied-error"] >>
                ELSE IF successCount > 0
                THEN Append(res.msgs,
                            [type |-> "token-applied-success",
                             styleName |-> IF Len(res.errorNodes) > 0
                                           THEN style.name
                                                \o fontNotAvailable(Len(res.errorNodes))
                                           ELSE style.name,
                             styleId |-> style.id])
                ELSE Append(res.msgs, [type |-> "token-applied-error"])
           /\ roundTrip' = roundTripAfter(res.bound, "text", styleId,
                                          "apply-typography-token-multiple")
           /\ console' = res.console
    /\ noAnalysis
    /\ request' = NullRec
    /\ edits' = edits + 1
    /\ applied' = {}
    /\ UNCHANGED <<currentPage, selection, pendingSel, pluginVars,
                   colorCacheOrigin, textCacheOrigin>>

(***************************************************************************)
(* remove-color-token                                                      *)
(***************************************************************************)
\* one pass of the for loop, with its try / catch
removeColorOne(d, nodeId, isStroke) ==
    LET node == getNodeById(nodeId)
        idField == IF isStroke THEN "strokeStyleId" ELSE "fillStyleId"
        paintField == IF isStroke THEN "strokes" ELSE "fills"
    IN  IF node = Null \/ ~isSceneNode(node) THEN d
        ELSE IF nodeId \in DOMAIN originalNodeStates
        THEN LET originalState == originalNodeStates[nodeId]
                 hasId == idField \in DOMAIN originalState /\ hasSlot(node, isStroke)
                 thrown == hasId /\ originalState[idField] # Mixed
                                 /\ ~paintStyleAssignable(originalState[idField])
                 d1 == IF ~hasId THEN d
                       ELSE IF originalState[idField] # Mixed
                       THEN setSlotStyleId(d, node, isStroke, originalState[idField])
                       ELSE setSlotStyleId(d, node, isStroke, NoStyle)
             IN  IF thrown THEN d
                 ELSE IF paintField \in DOMAIN originalState /\ hasSlot(node, isStroke)
                 THEN setSlotPaints(d1, node, isStroke, originalState[paintField])
                 ELSE d1
        ELSE IF hasSlot(node, isStroke) THEN setSlotStyleId(d, node, isStroke, NoStyle)
        ELSE d

\* the restore of the node's snapshot throws in this pass (caught and logged)
removeColorThrows(nodeId, isStroke) ==
    LET node == getNodeById(nodeId)
        idField == IF isStroke THEN "strokeStyleId" ELSE "fillStyleId"
    IN  /\ node # Null /\ isSceneNode(node)
        /\ nodeId \in DOMAIN originalNodeStates
        /\ idField \in DOMAIN originalNodeStates[nodeId]
        /\ hasSlot(node, isStroke)
        /\ originalNodeStates[nodeId][idField] # Mixed
        /\ ~paintStyleAssignable(originalNodeStates[nodeId][idField])

RECURSIVE removeColorAll(_, _, _)
removeColorAll(d, nodeIds, isStroke) ==
    IF nodeIds = <<>> THEN d
    ELSE removeColorAll(removeColorOne(d, Head(nodeIds), isStroke),
                        Tail(nodeIds), isStroke)

\* history: the remove half of an apply / remove pair
roundTripRemoved(nodeIds, kind) ==
    IF /\ roundTrip # NullRec
       /\ roundTrip.phase = "applied"
       /\ roundTrip.kind = kind
       /\ roundTrip.node \in Range(nodeIds)
    THEN [roundTrip EXCEPT !.phase = "removed"]
    ELSE NullRec

\* remove-color-token as it would be if a restore that throws were reported
RemoveColorTokenReportsThrow(nodeIds, isStroke) ==
    /\ edits < MaxEdits
    /\ doc' = removeColorAll(doc, nodeIds, isStroke)
    /\ outbox' = IF \E i \in 1..Len(nodeIds) : removeColorThrows(nodeIds[i], isStroke)
                 THEN << [type |-> "token-removed-error"] >>
                 ELSE << [type |-> "token-removed-success"] >>
    /\ console' = <<"remove-color-token recebido">>
                  \o SelectSeq([i \in 1..Len(nodeIds) |->
                                   IF removeColorThrows(nodeIds[i], isStroke)
                                   THEN "Erro ao remover token de cor" ELSE ""],
                               LAMBDA line : line # "")
    /\ applied' = {}
    /\ roundTrip' = roundTripRemoved(nodeIds, slotTag(isStroke))
    /\ noAnalysis
    /\ request' = NullRec
    /\ edits' = edits + 1
    /\ UNCHANGED <<currentPage, selection, pendingSel, pluginVars,
                   colorCacheOrigin, textCacheOrigin>>

RemoveColorToken(nodeIds, isStroke) ==
    /\ edits < MaxEdits
    /\ doc' = removeColorAll(doc, nodeIds, isStroke)
    /\ outbox' = << [type |-> "token-removed-success"] >>
    /\ console' = <<"remove-color-token recebido">>
                  \o SelectSeq([i \in 1..Len(nodeIds) |->
                                   IF removeColorThrows(nodeIds[i], isStroke)
                                   THEN "Erro ao remover token de cor" ELSE ""],
                               LAMBDA line : line # "")
    /\ applied' = {}
    /\ roundTrip' = roundTripRemoved(nodeIds, slotTag(isStroke))
    /\ noAnalysis
    /\ request' = NullRec
    /\ edits' = edits + 1
    /\ UNCHANGED <<currentPage, selection, pendingSel, pluginVars,
                   colorCacheOrigin, textCacheOrigin>>

(***************************************************************************)
(* remove-text-token                                                       *)
(***************************************************************************)
removeTextOne(d, nodeId) ==
    LET node == getNodeById(nodeId)
    IN  IF node = Null \/ NodeType[node] # "TEXT" THEN d
        ELSE IF d[node].textStyleId = NoStyle THEN d
        ELSE IF nodeId \in DOMAIN originalNodeStates
                /\ "fontName" \in DOMAIN originalNodeStates[nodeId]
        THEN LET originalState == originalNodeStates[nodeId]
             IN  [d EXCEPT ![node] = [@ EXCEPT !.textStyleId = NoStyle,
                                               !.fontName = originalState.fontName,
                                               !.fontSize = originalState.fontSize,
                                               !.lineHeight = originalState.lineHeight]]
        ELSE IF nodeId \in DOMAIN originalNodeStates
                /\ "textStyleId" \in DOMAIN originalNodeStates[nodeId]
                /\ originalNodeStates[nodeId].textStyleId # Mixed
        THEN LET id == originalNodeStates[nodeId].textStyleId
                 originalStyle == getStyleById(id)
             IN  IF id = NoStyle THEN setTextStyleId(d, node, NoStyle)
                 ELSE IF originalStyle # NullRec /\ originalStyle.type = "TEXT"
                 THEN setTextStyleId(d, node, id)
                 ELSE d
        ELSE setTextStyleId(d, node, NoStyle)

RECURSIVE removeTextAll(_, _)
removeTextAll(d, nodeIds) ==
    IF nodeIds = <<>> THEN d
    ELSE removeTextAll(removeTextOne(d, Head(nodeIds)), Tail(nodeIds))

RemoveTextToken(nodeIds) ==
    /\ edits < MaxEdits
    /\ doc' = removeTextAll(doc, nodeIds)
    /\ outbox' = << [type |-> "token-removed-success"] >>
    /\ console' = <<>>
    /\ roundTrip' = roundTripRemoved(nodeIds, "text")
    /\ noAnalysis
    /\ request' = NullRec
    /\ edits' = edits + 1
    /\ applied' = {}
    /\ UNCHANGED <<currentPage, selection, pendingSel, pluginVars,
                   colorCacheOrigin, textCacheOrigin>>

(***************************************************************************)
(* Token inventory: collectAppliedColorTokens, collectAppliedTextTokens    *)
(***************************************************************************)
\* the scene nodes below a page, in the order collectStyleIds visits them
RECURSIVE preOrder(_)
preOrder(list) ==
    IF list = <<>> THEN <<>>
    ELSE <<Head(list)>> \o preOrder(Children[Head(list)]) \o preOrder(Tail(list))

\* a Set's insertion order: the first occurrence of each element
RECURSIVE distinct(_)
distinct(s) ==
    IF s = <<>> THEN <<>>
    ELSE LET rest == distinct(SubSeq(s, 1, Len(s) - 1))
         IN  IF s[Len(s)] \in Range(rest) THEN rest ELSE Append(rest, s[Len(s)])

\* node.boundVariables.fills / .strokes: the aliases of the paints bound to a variable
boundAliases(paints) ==
    LET isBound(p) == p.boundVariables # NoVar
        bound == SelectSeq(paints, isBound)
    IN  [i \in 1..Len(bound) |-> bound[i].boundVariables]

\* the color previewed for a variable: the node's first solid paint, else black
previewHex(paints) ==
    LET solids == {i \in 1..Len(paints) : paints[i].type = "SOLID"}
    IN  IF solids = {} THEN <<"#","0","0","0","0","0","0">>
        ELSE rgbToHex(paints[CHOOSE i \in solids : \A j \in solids : i <= j].color)

\* the variable aliases one node contributes, with the paints they are previewed from
variableUses(d, n) ==
    LET ofSlot(paints) ==
            [i \in 1..Len(boundAliases(paints)) |->
                [id |-> boundAliases(paints)[i], paints |-> paints]]
    IN  (IF hasFills(n) THEN ofSlot(d[n].fills) ELSE <<>>)
        \o (IF hasStrokes(n) THEN ofSlot(d[n].strokes) ELSE <<>>)

RECURSIVE variableUsesOf(_, _)
variableUsesOf(d, nodes) ==
    IF nodes = <<>> THEN <<>>
    ELSE variableUses(d, Head(nodes)) \o variableUsesOf(d, Tail(nodes))

RECURSIVE variableTokens(_, _)
variableTokens(tokenSet, uses) ==
    IF uses = <<>> THEN tokenSet
    ELSE LET variable == getVariableById(Head(uses).id)
             cleanName == removeTokenPrefix(variable.name)
             known == \E i \in 1..Len(tokenSet) : tokenSet[i].styleId = variable.id
             add == /\ variable # NullRec
                    /\ variable.resolvedType = "COLOR"
                    /\ ~known
                    /\ isValidTokenName(cleanName)
         IN  variableTokens(
                 IF add
                 THEN Append(tokenSet, [name |-> cleanName,
                                        hex |-> previewHex(Head(uses).paints),
                                        styleId |-> variable.id])
                 ELSE tokenSet,
                 Tail(uses))

paintStyleIdsOf(d, n) ==
    (IF hasFills(n) /\ isBoundStyleId(d[n].fillStyleId)
     THEN <<d[n].fillStyleId>> ELSE <<>>)
    \o (IF hasStrokes(n) /\ isBoundStyleId(d[n].strokeStyleId)
        THEN <<d[n].strokeStyleId>> ELSE <<>>)

RECURSIVE paintStyleIdsInFile(_, _)
paintStyleIdsInFile(d, nodes) ==
    IF nodes = <<>> THEN <<>>
    ELSE paintStyleIdsOf(d, Head(nodes)) \o paintStyleIdsInFile(d, Tail(nodes))

\* paintStyleTokens as it would be if the style name were passed on as it is
RECURSIVE paintStyleTokensRawName(_)
paintStyleTokensRawName(styleIds) ==
    IF styleIds = <<>> THEN <<>>
    ELSE LET style == getStyleById(Head(styleIds))
             usable == /\ style # NullRec
                       /\ style.type = "PAINT"
                       /\ Len(style.paints) > 0
                       /\ style.paints[1].type = "SOLID"
         IN  (IF usable
              THEN << [name |-> style.name,
                       hex |-> rgbToHex(style.paints[1].color),
                       styleId |-> Head(styleIds)] >>
              ELSE <<>>)
             \o paintStyleTokensRawName(Tail(styleIds))

RECURSIVE paintStyleTokens(_)
paintStyleTokens(styleIds) ==
    IF styleIds = <<>> THEN <<>>
    ELSE LET style == getStyleById(Head(styleIds))
             usable == /\ style # NullRec
                       /\ style.type = "PAINT"
                       /\ Len(style.paints) > 0
                       /\ style.paints[1].type = "SOLID"
         IN  (IF usable
              THEN << [name |-> removeTokenPrefix(style.name),
                       hex |-> rgbToHex(style.paints[1].color),
                       styleId |-> Head(styleIds)] >>
              ELSE <<>>)
             \o paintStyleTokens(Tail(styleIds))

\* the list collectAppliedColorTokens computes for a page (cache aside)
colorTokensOfPage(d, page) ==
    LET nodes == preOrder(Children[page])
    IN  variableTokens(<<>>, variableUsesOf(d, nodes))
        \o paintStyleTokens(distinct(paintStyleIdsInFile(d, nodes)))

RECURSIVE textStyleIdsInFile(_, _)
textStyleIdsInFile(d, nodes) ==
    IF nodes = <<>> THEN <<>>
    ELSE (IF NodeType[Head(nodes)] = "TEXT" /\ isBoundStyleId(d[Head(nodes)].textStyleId)
          THEN <<d[Head(nodes)].textStyleId>> ELSE <<>>)
         \o textStyleIdsInFile(d, Tail(nodes))

RECURSIVE textStyleTokens(_)
textStyleTokens(styleIds) ==
    IF styleIds = <<>> THEN <<>>
    ELSE LET style == getStyleById(Head(styleIds))
         IN  (IF style # NullRec /\ style.type = "TEXT"
              THEN << [name |-> style.name, styleId |-> Head(styleIds),
                       fontFamily |-> style.fontName.family,
                       fontStyle |-> style.fontName.style,
                       fontSize |-> style.fontSize] >>
              ELSE <<>>)
             \o textStyleTokens(Tail(styleIds))

\* 100 x the distance of the code, so that weight / 100 stays an integer
calculateTextStyleDistance(source, target) ==
    LET abs(x) == IF x < 0 THEN -x ELSE x
        sourceWeight == IF "fontWeight" \in DOMAIN source THEN source.fontWeight
                        ELSE 400
        targetWeight == IF "fontWeight" \in DOMAIN target THEN target.fontWeight
                        ELSE 400
    IN  (IF source.fontFamily # target.fontFamily THEN 100 * 100 ELSE 0)
        + (IF source.fontSize # 0 /\ target.fontSize # 0
           THEN 100 * abs(source.fontSize - target.fontSize) ELSE 0)
        + abs(sourceWeight - targetWeight)

\* tokens.sort((a, b) => distA - distB): a stable sort
RECURSIVE sortByDistance(_, _)
sortByDistance(tokens, currentStyle) ==
    IF tokens = <<>> THEN <<>>
    ELSE LET sorted == sortByDistance(SubSeq(tokens, 1, Len(tokens) - 1), currentStyle)
             x == tokens[Len(tokens)]
             dist(tk) == calculateTextStyleDistance(currentStyle, tk)
             before == {i \in 1..Len(sorted) : dist(sorted[i]) <= dist(x)}
             k == Cardinality(before)
         IN  SubSeq(sorted, 1, k) \o <<x>> \o SubSeq(sorted, k + 1, Len(sorted))

\* the list collectAppliedTextTokens computes for a page (cache aside)
textTokensOfPage(d, page, currentStyle) ==
    LET used == distinct(textStyleIdsInFile(d, preOrder(Children[page])))
        styleIdsInFile == IF used = <<>> THEN LocalTextStyles ELSE used
        tokens == textStyleTokens(styleIdsInFile)
    IN  IF currentStyle # NullRec THEN sortByDistance(tokens, currentStyle)
        ELSE tokens

colorCacheHit == cachedColorTokens.some /\ cachedPageId = currentPage

textCacheHit == cachedTextTokens.some /\ cachedPageId = currentPage

collectAppliedColorTokens ==
    IF colorCacheHit THEN cachedColorTokens.v
    ELSE colorTokensOfPage(doc, currentPage)

collectAppliedTextTokens(currentStyle) ==
    IF textCacheHit THEN cachedTextTokens.v
    ELSE textTokensOfPage(doc, currentPage, currentStyle)

(***************************************************************************)
(* get-suggested-tokens                                                    *)
(***************************************************************************)
\* the profile of the text node the request names, if it names one
currentStyleOf(nodeId) ==
    LET node == getNodeById(nodeId)
    IN  IF node # Null /\ NodeType[node] = "TEXT" /\ CharactersLength[node] > 0
        THEN [fontFamily |-> doc[node].fontName.family,
              fontSize |-> doc[node].fontSize,
              fontWeight |-> weightOf(doc[node].fontName)]
        ELSE NullRec

GetSuggestedTokens(nodeId) ==
    /\ LET validNodes == targetContainers(selection, rootFrameIds)
           colors == validNodes # <<>> /\ currentTab = "colors"
           typography == validNodes # <<>> /\ currentTab # "colors"
           currentStyle == currentStyleOf(nodeId)
       IN  /\ outbox' =
                IF colors
                THEN << [type |-> "result-suggested-tokens",
                         tokens |-> collectAppliedColorTokens] >>
                ELSE IF typography
                THEN << [type |-> "result-suggested-text-tokens",
                         tokens |-> collectAppliedTextTokens(currentStyle)] >>
                ELSE << [type |-> "result-suggested-tokens", tokens |-> <<>>] >>
           /\ cachedColorTokens' = IF colors THEN Some(collectAppliedColorTokens)
                                   ELSE cachedColorTokens
           /\ cachedTextTokens' =
                IF typography THEN Some(collectAppliedTextTokens(currentStyle))
                ELSE cachedTextTokens
           /\ cachedPageId' = IF colors \/ typography THEN currentPage
                              ELSE cachedPageId
           /\ console' = IF colors /\ colorCacheHit
                         THEN <<"Usando cache de color tokens">>
                         ELSE IF typography /\ textCacheHit
                         THEN <<"Usando cache de text tokens">>
                         ELSE <<>>
           /\ colorCacheOrigin' = IF colors /\ ~colorCacheHit THEN currentPage
                                  ELSE colorCacheOrigin
           /\ textCacheOrigin' = IF typography /\ ~textCacheHit THEN currentPage
                                 ELSE textCacheOrigin
           /\ request' = [tab |-> currentTab, nodeId |-> nodeId,
                          currentStyle |-> IF typography THEN currentStyle
                                           ELSE NullRec,
                          containers |-> validNodes]
    /\ noAnalysis
    /\ UNCHANGED <<hostVars, showHiddenElements, currentTab,
                   ignoringSelectionChange, rootFrameId, rootFrameIds,
                   initialSelectionIds, originalNodeStates, suspended,
                   applied, roundTrip, edits>>

(***************************************************************************)
(* Documents the plugin is started on                                      *)
(***************************************************************************)
Red == Solid(255, 0, 0)
Green == Solid(0, 255, 0)
NoFont == [family |-> <<>>, style |-> <<>>]

shape(fills, strokes) ==
    [visible |-> TRUE, fills |-> fills, strokes |-> strokes,
     fillStyleId |-> NoStyle, strokeStyleId |-> NoStyle, textStyleId |-> NoStyle,
     fontName |-> NoFont, fontSize |-> 0, lineHeight |-> 0]

textNode(family, style, size, lineHeight) ==
    [visible |-> TRUE, fills |-> <<>>, strokes |-> <<>>,
     fillStyleId |-> NoStyle, strokeStyleId |-> NoStyle, textStyleId |-> NoStyle,
     fontName |-> [family |-> family, style |-> style], fontSize |-> size,
     lineHeight |-> lineHeight]

\* nothing styled but the text R, whose fill carries the paint style
\* Base/Gray-500, and U, which carries the text style Base/Alt
PlainDoc ==
    LET raw == [n \in NodeIds |->
                   CASE n = "B" -> shape(<<Red>>, <<>>)
                     [] n = "D" -> shape(<<Green>>, <<>>)
                     [] n = "E" -> shape(<<Green>>, <<>>)
                     [] n = "R" -> [textNode(Roboto, Regular, 16, 20)
                                      EXCEPT !.fills = <<Red>>]
                     [] n = "T" -> textNode(Inter, Regular, 16, 24)
                     [] n = "U" -> textNode(Roboto, Regular, 16, 20)
                     [] n = "W" -> textNode(Inter, Regular, 16, 24)
                     [] OTHER -> shape(<<>>, <<>>)]
    IN  setTextStyleId(setFillStyleId(raw, "R", "S_gray"), "U", "T_rob")

\* the ways one paint slot of a node is found styled
SlotConfigs ==
    {"plain", "brand", "local", "gone", "var", "varLocal", "two", "hiddenPaint",
     "gradientBrand", "image", "none", "stale", "gradient", "video", "pattern"}

withSlot(d, n, isStroke, config) ==
    LET boundBlue == setBoundVariableForPaint(Red, VariableTable["V_blue"])
        paints(ps) == setSlotPaints(d, n, isStroke, ps)
        idOnly(dd, id) == IF isStroke THEN [dd EXCEPT ![n].strokeStyleId = id]
                          ELSE [dd EXCEPT ![n].fillStyleId = id]
    IN  CASE config = "plain" -> paints(<<Red>>)
          [] config = "brand" -> setSlotStyleId(d, n, isStroke, "S_brand")
          [] config = "local" -> setSlotStyleId(d, n, isStroke, "S_local")
          [] config = "gone" -> idOnly(paints(<<Red>>), "S_gone")
          [] config = "var" -> paints(<<boundBlue>>)
          [] config = "varLocal" -> idOnly(paints(<<boundBlue>>), "S_local")
          [] config = "two" -> paints(<<Red, Green>>)
          [] config = "hiddenPaint" -> paints(<<[Red EXCEPT !.visible = FALSE]>>)
          [] config = "gradientBrand" -> idOnly(paints(<<Gradient>>), "S_brand")
          [] config = "image" -> paints(<<Image>>)
          [] config = "stale" -> idOnly(paints(<<Red>>), "S_stale")
          [] config = "gradient" -> paints(<<Gradient>>)
          [] config = "video" -> paints(<<Video>>)
          [] config = "pattern" -> paints(<<Pattern>>)
          [] OTHER -> paints(<<>>)

hide(d, hidden) == [n \in NodeIds |-> [d[n] EXCEPT !.visible = n \notin hidden]]

(***************************************************************************)
(* Plugin start: the state variables as declared, then the init block      *)
(***************************************************************************)
pluginStart(d, page, sel) ==
    LET containers == getValidFramesFromSelection(sel)
    IN  /\ doc = d
        /\ currentPage = page
        /\ selection = sel
        /\ pendingSel = 0
        /\ showHiddenElements = FALSE
        /\ currentTab = "colors"
        /\ ignoringSelectionChange = FALSE
        /\ rootFrameId = IF containers # <<>> THEN containers[1] ELSE Null
        /\ rootFrameIds = containers
        /\ initialSelectionIds = IF containers # <<>> THEN Some(sel) ELSE None
        /\ cachedColorTokens = None
        /\ cachedTextTokens = None
        /\ cachedPageId = Null
        /\ originalNodeStates = <<>>
        /\ suspended = <<>>
        /\ analyzed = containers
        /\ outbox = << [type |-> "init-tab", tab |-> "colors"] >>
                    \o (IF containers # <<>>
                        THEN << analyzeColors(d, FALSE, containers) >>
                        ELSE << [type |-> "empty", clearAll |-> TRUE] >>)
        /\ console = <<"Plugin iniciado">>
        /\ applied = {}
        /\ roundTrip = NullRec
        /\ colorCacheOrigin = Null
        /\ textCacheOrigin = Null
        /\ request = NullRec
        /\ edits = 0

Tabs == {"colors", "typography"}

(***************************************************************************)
(* SpecAnalyze: the audit of a document that nobody edits                  *)
(***************************************************************************)
\* B's fill styled every way, and B's stroke styled against a styled fill
SlotDocs ==
    {withSlot(PlainDoc, "B", FALSE, fill) :
        fill \in SlotConfigs \ {"none", "stale", "gradient", "video", "pattern"}}
    \cup {withSlot(withSlot(PlainDoc, "B", FALSE, fill), "B", TRUE, stroke) :
            fill \in {"plain", "brand", "local", "var"},
            stroke \in {"plain", "brand", "local"}}

\* one node hidden, T's text styled or not
HiddenDocs ==
    {hide(IF styled THEN setTextStyleId(PlainDoc, "T", "T_body") ELSE PlainDoc,
          hidden) :
        hidden \in {{}, {"H"}, {"B"}, {"T"}, {"A"}},
        styled \in BOOLEAN}

AnalyzeDocs == SlotDocs \cup HiddenDocs

AnalyzeSelections == {<<>>, <<"A">>, <<"F">>, <<"B">>, <<"A", "F">>}

InitAnalyze ==
    \E d \in AnalyzeDocs, sel \in AnalyzeSelections : pluginStart(d, "P1", sel)

NextAnalyze ==
    \/ \E sel \in AnalyzeSelections : UserSelect(sel)
    \/ SelectionChange
    \/ \E value \in BOOLEAN : ToggleHidden(value)
    \/ \E tab \in Tabs : SwitchTab(tab)
    \/ Reanalyze

SpecAnalyze == InitAnalyze /\ [][NextAnalyze]_vars

(***************************************************************************)
(* What an analysis reply says, read from the reply itself                 *)
(***************************************************************************)
\* the nodes from container c down to n, or nothing when n is not below c
RECURSIVE pathTo(_, _)
pathTo(c, n) ==
    IF n = c THEN <<c>>
    ELSE IF n \notin NodeIds THEN <<>>
    ELSE LET up == pathTo(c, Parent[n])
         IN  IF up = <<>> THEN <<>> ELSE Append(up, n)

\* the walk from an analysed container reaches n
visited(n) ==
    \E i \in 1..Len(analyzed) :
        LET path == pathTo(analyzed[i], n)
        IN  /\ path # <<>>
            /\ showHiddenElements \/ \A k \in 1..Len(path) : doc[path[k]].visible

colorReplies == {i \in 1..Len(outbox) : outbox[i].type = "result-colors"}

typographyReplies == {i \in 1..Len(outbox) : outbox[i].type = "result-typography"}

\* paint k of slot isStroke of node n is listed in group g of a color reply
listedIn(g, n, k, isStroke) ==
    \E j \in 1..Len(g.nodePaints) :
        /\ g.nodePaints[j].nodeId = n
        /\ g.nodePaints[j].paintIndex = k
        /\ g.nodePaints[j].isStroke = isStroke

\* the style the slot is bound to carries an allow-listed prefix
slotExcluded(n, isStroke) ==
    LET styleId == IF isStroke THEN doc[n].strokeStyleId ELSE doc[n].fillStyleId
    IN  /\ styleId \in StyleIds
        /\ \E i \in 1..Len(VALID_TOKEN_PREFIXES) :
              startsWith(StyleTable[styleId].name, VALID_TOKEN_PREFIXES[i])

plainSolid(paint) ==
    paint.type = "SOLID" /\ paint.visible /\ paint.boundVariables = NoVar

\* C1: in every color reply, a visible solid paint without bound variable of
\* a visited node is in no group if and only if the style bound to the
\* paint's own slot has an allow-listed prefix; otherwise it is in exactly
\* one group, the one labelled with its hex and holding only that slot.
C1_PrefixOfOwnSlotDecides ==
    \A i \in colorReplies :
      \A n \in NodeIds, isStroke \in BOOLEAN :
        (visited(n) /\ hasSlot(n, isStroke)) =>
          \A k \in 1..Len(slotPaints(doc, n, isStroke)) :
            LET paint == slotPaints(doc, n, isStroke)[k]
                groups == outbox[i].groups
                holding == {g \in 1..Len(groups) : listedIn(groups[g], n, k, isStroke)}
            IN  plainSolid(paint) =>
                  IF slotExcluded(n, isStroke) THEN holding = {}
                  ELSE /\ Cardinality(holding) = 1
                       /\ \A g \in holding :
                            /\ groups[g].label = rgbToHex(paint.color)
                            /\ \A j \in 1..Len(groups[g].nodePaints) :
                                  groups[g].nodePaints[j].isStroke = isStroke

\* C1 witness: B, fill bound to Brand Colors/Primary and stroke unstyled, is
\* analysed: its fill is in no group, its stroke is reported
C1_Witness ==
    /\ colorReplies # {}
    /\ visited("B")
    /\ slotExcluded("B", FALSE)
    /\ ~slotExcluded("B", TRUE)
    /\ \E k \in 1..Len(doc["B"].strokes) : plainSolid(doc["B"].strokes[k])
    /\ \E k \in 1..Len(doc["B"].fills) : plainSolid(doc["B"].fills[k])
    /\ \E i \in colorReplies : \E g \in 1..Len(outbox[i].groups) :
          listedIn(outbox[i].groups[g], "B", 1, TRUE)

\* C2: a solid paint with a bound color variable is compliant for
\* hasValidColorToken and is listed in no group of any color reply, whatever
\* style the node's slot is bound to.
C2_BoundVariableCompliant ==
    /\ \A n \in NodeIds, isStroke \in BOOLEAN :
          hasSlot(n, isStroke) =>
            \A k \in 1..Len(slotPaints(doc, n, isStroke)) :
              LET paint == slotPaints(doc, n, isStroke)[k]
              IN  (paint.type = "SOLID" /\ paint.boundVariables # NoVar) =>
                     hasValidColorToken(doc, n, paint, isStroke)
    /\ \A i \in colorReplies :
          \A g \in 1..Len(outbox[i].groups) :
            \A j \in 1..Len(outbox[i].groups[g].nodePaints) :
              LET o == outbox[i].groups[g].nodePaints[j]
              IN  ~(o.paint.type = "SOLID" /\ o.paint.boundVariables # NoVar)

\* C2 witness: B is analysed while its fill is bound to the variable and to
\* the style Local/Red, which is outside the allow-list
C2_Witness ==
    /\ colorReplies # {}
    /\ visited("B")
    /\ doc["B"].fillStyleId = "S_local"
    /\ Len(doc["B"].fills) > 0
    /\ doc["B"].fills[1].type = "SOLID"
    /\ doc["B"].fills[1].boundVariables = "V_blue"

(***************************************************************************)
(* SpecEdit: tokens are applied to and removed from B and T, snapshots are *)
(* saved and dropped, and the container A is analysed again                *)
(***************************************************************************)
\* B with two fills and a stroke; T unstyled, or bound to the style Heading
EditDocs ==
    LET base == withSlot(withSlot(PlainDoc, "B", FALSE, "two"), "B", TRUE, "plain")
    IN  {base, setTextStyleId(base, "T", "T_head")}

InitEdit == \E d \in EditDocs : pluginStart(d, "P1", <<"A">>)

NextEdit ==
    \/ SaveOriginalState(<<"B", "T">>)
    \/ \E nodeIds \in {<<"B">>, <<"B", "D">>},
          styleId \in {"S_brand", "S_local", "V_blue"}, isStroke \in BOOLEAN :
          ApplyTokenMultiple(nodeIds, styleId, isStroke)
    \/ \E styleId \in {"S_brand", "S_local", "V_blue"}, isStroke \in BOOLEAN :
          ApplyToken(<<"B">>, styleId, isStroke, FALSE)
    \/ \E styleId \in {"T_body", "T_rob"} : ApplyToken(<<"T">>, styleId, FALSE, TRUE)
    \/ \E styleId \in {"T_body", "T_rob"} :
          ApplyTypographyTokenMultiple(<<"T">>, styleId, FontsReady)
    \/ \E nodeIds \in {<<"B">>, <<"B", "D">>}, isStroke \in BOOLEAN :
          RemoveColorToken(nodeIds, isStroke)
    \/ RemoveTextToken(<<"T">>)
    \/ Reanalyze
    \/ BackToList
    \/ \E i \in 1..MaxSuspended : BackToListResume(i)

SpecEdit == InitEdit /\ [][NextEdit]_vars

\* node n is listed in slot isStroke in some group of color reply i
reportedIn(i, n, isStroke) ==
    \E g \in 1..Len(outbox[i].groups) :
        \E j \in 1..Len(outbox[i].groups[g].nodePaints) :
            /\ outbox[i].groups[g].nodePaints[j].nodeId = n
            /\ outbox[i].groups[g].nodePaints[j].isStroke = isStroke

\* a color variable, or a paint style whose name has an allow-listed prefix
allowListedToken(id) ==
    \/ id \in VariableIds /\ VariableTable[id].resolvedType = "COLOR"
    \/ id \in PaintStyleIds /\ hasValidPrefix(StyleTable[id].name)

\* C3: once apply-token or apply-token-multiple has applied a token (a color
\* variable or an allow-listed paint style) to a node that was non-compliant
\* in a slot, an analysis of the same container that follows with no other
\* edit in between does not report the node in that slot.
C3_AppliedNotReportedAgain ==
    \A i \in colorReplies :
        (roundTrip # NullRec /\ roundTrip.phase = "applied"
            /\ allowListedToken(roundTrip.token)) =>
            \A pr \in applied : ~reportedIn(i, pr[1], pr[2] = "stroke")

\* the compliant / non-compliant outcome of node n, slot by slot
classification(d, n) ==
    [fill |-> nonCompliantSlot(d, n, FALSE),
     stroke |-> nonCompliantSlot(d, n, TRUE),
     text |-> NodeType[n] = "TEXT" /\ ~hasValidTextToken(d, n)]

\* C4: after a token was applied to a node and then removed, with no other
\* edit in between, the node is classified slot by slot as before the apply
\* and, when a snapshot of it was saved before the apply, its fills, strokes
\* and font properties are those it had before the apply.
C4_ApplyRemoveRoundTrip ==
    (roundTrip # NullRec /\ roundTrip.phase = "removed") =>
        LET n == roundTrip.node
            before == [doc EXCEPT ![n] = roundTrip.before]
        IN  /\ classification(doc, n) = classification(before, n)
            /\ roundTrip.saved =>
                  /\ doc[n].fills = roundTrip.before.fills
                  /\ doc[n].strokes = roundTrip.before.strokes
                  /\ doc[n].fontName = roundTrip.before.fontName
                  /\ doc[n].fontSize = roundTrip.before.fontSize
                  /\ doc[n].lineHeight = roundTrip.before.lineHeight

\* C5: save-original-state for a node that already has a snapshot leaves the
\* snapshot as it is: as long as a node keeps an entry in originalNodeStates,
\* the entry does not change.
C5_SecondSaveIsNoOp ==
    [][\A n \in (DOMAIN originalNodeStates) \cap (DOMAIN originalNodeStates') :
          originalNodeStates'[n] = originalNodeStates[n]]_vars

\* n is hidden or lies below a hidden node
hiddenOrBelowHidden(n) ==
    \E m \in NodeIds : ~doc[m].visible /\ pathTo(m, n) # <<>>

\* n lies in an analysed container
inAnalyzed(n) == \E i \in 1..Len(analyzed) : pathTo(analyzed[i], n) # <<>>

\* text node n is listed in some group of typography reply i
textReportedIn(i, n) ==
    \E g \in 1..Len(outbox[i].groups) :
        \E j \in 1..Len(outbox[i].groups[g].nodeStyles) :
            outbox[i].groups[g].nodeStyles[j].nodeId = n

\* C10: with the filter excluding hidden elements, no hidden node and no
\* descendant of a hidden node is listed in a color or typography group;
\* with the filter including them, a hidden node of an analysed container
\* that holds a non-compliant paint, or is an unstyled text node, is listed.
C10_VisibilityFilter ==
    /\ ~showHiddenElements =>
          \A n \in NodeIds :
             hiddenOrBelowHidden(n) =>
                /\ \A i \in colorReplies :
                      ~reportedIn(i, n, FALSE) /\ ~reportedIn(i, n, TRUE)
                /\ \A i \in typographyReplies : ~textReportedIn(i, n)
    /\ showHiddenElements =>
          \A n \in NodeIds :
             (~doc[n].visible /\ inAnalyzed(n)) =>
                /\ \A i \in colorReplies :
                      /\ nonCompliantSlot(doc, n, FALSE) => reportedIn(i, n, FALSE)
                      /\ nonCompliantSlot(doc, n, TRUE) => reportedIn(i, n, TRUE)
                /\ \A i \in typographyReplies :
                      (NodeType[n] = "TEXT" /\ ~hasValidTextToken(doc, n)) =>
                          textReportedIn(i, n)

(***************************************************************************)
(* SpecSel: the user and the plugin both write the selection               *)
(***************************************************************************)
InitSel == \E sel \in {<<>>, <<"A">>} : pluginStart(PlainDoc, "P1", sel)

NextSel ==
    \/ \E sel \in {<<>>, <<"A">>, <<"B">>, <<"F">>, <<"R">>} : UserSelect(sel)
    \/ SelectionChange
    \/ \E nodeId \in {"B", "D", "gone"} : SelectNode(nodeId)
    \/ \E nodeIds \in {<<"B", "T">>, <<"gone">>} : SelectMultipleNodes(nodeIds)
    \/ \E i \in 1..MaxSuspended : SelectTimeout(i)
    \/ SaveInitialSelection
    \/ EnterListView
    \/ BackToList
    \/ \E i \in 1..MaxSuspended : BackToListResume(i)

SpecSel == InitSel /\ [][NextSel]_vars

\* a selectionchange event is delivered to the handler in this step
delivered == pendingSel' = pendingSel - 1

TokDoc == setFillStyleId(PlainDoc, "G", "S_brand")

InitTok == pluginStart(TokDoc, "P1", <<"A">>)

NextTok ==
    \/ \E nodeId \in {Null, "T", "R"} : GetSuggestedTokens(nodeId)
    \/ \E p \in Pages : UserChangePage(p)
    \/ \E sel \in {<<>>, <<"A">>, <<"G">>} : UserSelect(sel)
    \/ SelectionChange
    \/ \E tab \in Tabs : SwitchTab(tab)
    \/ \E styleId \in {"S_brand", "S_grad"} :
          ApplyToken(<<"B">>, styleId, FALSE, FALSE)

SpecTok == InitTok /\ [][NextTok]_vars

\* a get-suggested-tokens request that found a container has just been answered
answered(tab) ==
    request # NullRec /\ request.tab = tab /\ request.containers # <<>>

\* C7: the list a suggestion request returns was computed while the page
\* that is current at the request was the active page, for colors and for
\* typography alike.
C7_ListIsOfCurrentPage ==
    /\ answered("colors") => colorCacheOrigin = currentPage
    /\ answered("typography") => textCacheOrigin = currentPage

\* C8: a typography request that names a text node is answered with every
\* collected token, in non-decreasing order of calculateTextStyleDistance to
\* that node's profile.
C8_SortedByDistance ==
    (answered("typography") /\ request.currentStyle # NullRec) =>
        LET tokens == outbox[1].tokens
            dist(k) == calculateTextStyleDistance(request.currentStyle, tokens[k])
        IN  /\ \A k \in 1..(Len(tokens) - 1) : dist(k) <= dist(k + 1)
            /\ Range(tokens) = Range(textTokensOfPage(doc, currentPage, NullRec))

\* the name the suggestion list shows for a paint style
strippedName(styleId) ==
    CASE styleId = "S_brand" -> <<"P","r","i","m","a","r","y">>
      [] styleId = "S_gray" -> <<"G","r","a","y","-","5","0","0">>
      [] styleId = "S_grad" -> <<"F","a","d","e">>
      [] OTHER -> <<"L","o","c","a","l","/","R","e","d">>

\* apply-token was the latest edit and bound a paint style to a node of the
\* current page
styleJustApplied ==
    /\ roundTrip # NullRec
    /\ roundTrip.phase = "applied"
    /\ roundTrip.via = "apply-token"
    /\ roundTrip.token \in PaintStyleIds
    /\ PageOf(roundTrip.node) = currentPage

offers(tokens, styleId) ==
    \E k \in 1..Len(tokens) :
        tokens[k].styleId = styleId /\ tokens[k].name = strippedName(styleId)

\* C9 as claimed: after apply-token has bound a paint style X to a node of
\* the current page, the next colors reply offers X under its stripped name,
\* whether or not a list had been requested on the page before.
C9_AppliedStyleOffered ==
    (request # NullRec /\ request.tab = "colors" /\ styleJustApplied) =>
        offers(outbox[1].tokens, roundTrip.token)

\* C9 as the collector behaves: the colors reply offers X under its stripped
\* name when a container is found, the list is computed for the request
\* (not taken from the cache) and X's first paint is solid; a list taken
\* from the cache is the one computed before.
C9_FreshListOffersAppliedStyle ==
    (answered("colors") /\ styleJustApplied) =>
        IF console = <<"Usando cache de color tokens">>
        THEN outbox[1].tokens = cachedColorTokens.v
        ELSE StyleTable[roundTrip.token].paints[1].type = "SOLID" =>
                offers(outbox[1].tokens, roundTrip.token)

\* C9 witness: Brand Colors/Primary was bound to B and the list computed
\* afterwards offers it as Primary
C9_Witness ==
    /\ answered("colors")
    /\ styleJustApplied
    /\ roundTrip.token = "S_brand"
    /\ console = <<>>
    /\ offers(outbox[1].tokens, "S_brand")

(***************************************************************************)
(* SpecPaint: the audit of documents whose paints are of every kind: B and *)
(* D share a color, B's fill and stroke are solid, gradient, image, video  *)
(* or pattern paints, or carry the id of a style that is gone              *)
(***************************************************************************)
\* D filled with the red of B
PaintBase == setSlotPaints(PlainDoc, "D", FALSE, <<Red>>)

\* the stylings of B's fill and of B's stroke
PaintStylings ==
    {<<"plain", "plain">>, <<"two", "none">>, <<"gradient", "gradient">>,
     <<"gradientBrand", "plain">>, <<"image", "gradient">>, <<"video", "plain">>,
     <<"pattern", "none">>, <<"gone", "plain">>, <<"stale", "plain">>,
     <<"plain", "stale">>, <<"plain", "gone">>}

PaintDocs ==
    {withSlot(withSlot(PaintBase, "B", FALSE, s[1]), "B", TRUE, s[2]) :
        s \in PaintStylings}
    \cup {hide(withSlot(PaintBase, "B", TRUE, "plain"), {"D"})}

PaintSelections == {<<"A">>, <<"F">>, <<"A", "F">>}

InitPaint ==
    \E d \in PaintDocs, sel \in PaintSelections : pluginStart(d, "P1", sel)

NextPaint ==
    \/ \E sel \in PaintSelections : UserSelect(sel)
    \/ SelectionChange
    \/ \E value \in BOOLEAN : ToggleHidden(value)
    \/ \E tab \in Tabs : SwitchTab(tab)
    \/ Reanalyze

SpecPaint == InitPaint /\ [][NextPaint]_vars

\* the occurrences of a color reply, as (group, position) pairs
occurrencesOf(reply) ==
    UNION {{<<g, j>> : j \in 1..Len(reply.groups[g].nodePaints)} :
              g \in 1..Len(reply.groups)}

occurrence(reply, p) == reply.groups[p[1]].nodePaints[p[2]]

\* C11: in every color reply, two occurrences of solid paints are in the
\* same group if and only if their paints have the same hex and they are of
\* the same slot; so a fill and a stroke of one hex are in two groups.
C11_GroupedByHexAndSlot ==
    \A i \in colorReplies :
      \A p, q \in occurrencesOf(outbox[i]) :
        LET o1 == occurrence(outbox[i], p)
            o2 == occurrence(outbox[i], q)
        IN  (o1.paint.type = "SOLID" /\ o2.paint.type = "SOLID") =>
              ((p[1] = q[1]) <=>
                  (/\ rgbToHex(o1.paint.color) = rgbToHex(o2.paint.color)
                   /\ o1.isStroke = o2.isStroke))

\* C11 witness: a reply holds the red fills of two nodes in one group and a
\* red stroke in another
C11_Witness ==
    \E i \in colorReplies :
      \E p, q, r \in occurrencesOf(outbox[i]) :
        LET o1 == occurrence(outbox[i], p)
            o2 == occurrence(outbox[i], q)
            o3 == occurrence(outbox[i], r)
        IN  /\ p[1] = q[1] /\ o1.nodeId # o2.nodeId
            /\ o1.paint = Red /\ o2.paint = Red /\ o3.paint = Red
            /\ ~o1.isStroke /\ ~o2.isStroke /\ o3.isStroke
            /\ r[1] # p[1]

Gradiente == <<"G","r","a","d","i","e","n","t","e">>

\* C12 as claimed: no gradient, image, video or pattern paint is an
\* occurrence of any group of a color reply.
C12_NoGradientOrMediaOccurrence ==
    \A i \in colorReplies :
      \A p \in occurrencesOf(outbox[i]) :
        occurrence(outbox[i], p).paint.type = "SOLID"

\* C12 as the analysis behaves: an image, video or pattern paint is an
\* occurrence of no group; a visible gradient paint of a visited node is an
\* occurrence, whatever style its slot is bound to, and every gradient
\* occurrence is in a group labelled Gradiente that holds gradients of its
\* slot only.
C12_MediaExcludedGradientListed ==
    \A i \in colorReplies :
      /\ \A p \in occurrencesOf(outbox[i]) :
            LET o == occurrence(outbox[i], p)
                g == outbox[i].groups[p[1]]
            IN  /\ o.paint.type \notin {"IMAGE", "VIDEO", "PATTERN"}
                /\ isGradientPaint(o.paint) =>
                      /\ g.label = Gradiente
                      /\ \A j \in 1..Len(g.nodePaints) :
                            /\ isGradientPaint(g.nodePaints[j].paint)
                            /\ g.nodePaints[j].isStroke = o.isStroke
      /\ \A n \in NodeIds, isStroke \in BOOLEAN :
            (visited(n) /\ hasSlot(n, isStroke)) =>
              \A k \in 1..Len(slotPaints(doc, n, isStroke)) :
                LET paint == slotPaints(doc, n, isStroke)[k]
                    listed == \E g \in 1..Len(outbox[i].groups) :
                                 listedIn(outbox[i].groups[g], n, k, isStroke)
                IN  /\ (isGradientPaint(paint) /\ paint.visible) => listed
                    /\ paint.type \in {"IMAGE", "VIDEO", "PATTERN"} => ~listed

\* C12 witness: B, whose only fill is an image and whose stroke is a
\* gradient, has been analysed: the reply lists the stroke under Gradiente
C12_Witness ==
    /\ visited("B")
    /\ doc["B"].fills = <<Image>>
    /\ doc["B"].strokes = <<Gradient>>
    /\ \E i \in colorReplies : \E g \in 1..Len(outbox[i].groups) :
          /\ outbox[i].groups[g].label = Gradiente
          /\ listedIn(outbox[i].groups[g], "B", 1, TRUE)

(***************************************************************************)
(* SpecText: text styles are bound to and removed from the text T of frame *)
(* A, and A's typography is analysed again                                 *)
(***************************************************************************)
\* T without text style, with a mixed one, or bound to the style Heading
TextDocs ==
    {PlainDoc, [PlainDoc EXCEPT !["T"].textStyleId = Mixed],
     setTextStyleId(PlainDoc, "T", "T_head")}

InitText == \E d \in TextDocs : pluginStart(d, "P1", <<"A">>)

NextText ==
    \/ \E tab \in Tabs : SwitchTab(tab)
    \/ Reanalyze
    \/ \E value \in BOOLEAN : ToggleHidden(value)
    \/ \E styleId \in {"T_body", "T_head"} : ApplyToken(<<"T">>, styleId, FALSE, TRUE)
    \/ ApplyTypographyTokenMultiple(<<"T">>, "T_rob", FontsReady)
    \/ RemoveTextToken(<<"T">>)

SpecText == InitText /\ [][NextText]_vars

\* the groups of typography reply i that list text node n
textGroupsOf(i, n) ==
    {g \in 1..Len(outbox[i].groups) :
        \E j \in 1..Len(outbox[i].groups[g].nodeStyles) :
            outbox[i].groups[g].nodeStyles[j].nodeId = n}

\* C13: hasValidTextToken holds for a text node if and only if its
\* textStyleId is a non-empty string, whatever the name of the style; so a
\* walked text node with a text style bound is in no group of a typography
\* reply, and one without (empty or mixed) is in exactly one group.
C13_BoundTextStyleCompliant ==
    /\ \A n \in NodeIds :
          NodeType[n] = "TEXT" =>
             (hasValidTextToken(doc, n) <=>
                 doc[n].textStyleId \notin {NoStyle, Mixed, Null})
    /\ \A i \in typographyReplies :
          \A n \in NodeIds :
             (NodeType[n] = "TEXT" /\ visited(n)) =>
                IF doc[n].textStyleId \in {NoStyle, Mixed, Null}
                THEN Cardinality(textGroupsOf(i, n)) = 1
                ELSE textGroupsOf(i, n) = {}

\* C13 witness: T was bound to the style Body, whose name has no
\* allow-listed prefix, and the typography of A was analysed after that
C13_Witness ==
    /\ typographyReplies # {}
    /\ visited("T")
    /\ doc["T"].textStyleId = "T_body"
    /\ edits > 0
    /\ \A i \in typographyReplies : textGroupsOf(i, "T") = {}

\* the analysis results among the messages of one step
resultsIn(box) ==
    LET isResult(m) == m.type \in {"result-colors", "result-typography"}
    IN  SelectSeq(box, isResult)

\* this step analyses the containers the step before analysed, on the same
\* tab, with the same filter and the same document
analysedAgain ==
    /\ analyzed # <<>> /\ analyzed' = analyzed
    /\ resultsIn(outbox) # <<>> /\ resultsIn(outbox') # <<>>
    /\ doc' = doc
    /\ showHiddenElements' = showHiddenElements
    /\ currentTab' = currentTab

lookupFails(n, isStroke) ==
    LET styleId == IF isStroke THEN doc[n].strokeStyleId ELSE doc[n].fillStyleId
    IN  isBoundStyleId(styleId) /\ styleId \notin StyleIds

\* C15: a solid paint without bound variable whose slot carries the id of a
\* style that cannot be looked up (the lookup returns null, or throws) is no
\* token for hasValidColorToken; the analysis goes on: every color reply
\* that walked the node lists the paint in the group of its hex, named by
\* its hex, and lists the unstyled paints of the node's other slot as well.
C15_FailedLookupIsNoToken ==
    \A n \in NodeIds, isStroke \in BOOLEAN :
      (hasSlot(n, isStroke) /\ lookupFails(n, isStroke)) =>
        \A k \in 1..Len(slotPaints(doc, n, isStroke)) :
          LET paint == slotPaints(doc, n, isStroke)[k]
              hex == rgbToHex(paint.color)
          IN  plainSolid(paint) =>
                /\ ~hasValidColorToken(doc, n, paint, isStroke)
                /\ \A i \in colorReplies :
                      visited(n) =>
                        /\ \E p \in occurrencesOf(outbox[i]) :
                              LET o == occurrence(outbox[i], p)
                              IN  /\ o.nodeId = n /\ o.paintIndex = k
                                  /\ o.isStroke = isStroke
                                  /\ o.label = hex /\ o.name = hex
                                  /\ outbox[i].groups[p[1]].label = hex
                        /\ \A j \in 1..Len(slotPaints(doc, n, ~isStroke)) :
                              (/\ plainSolid(slotPaints(doc, n, ~isStroke)[j])
                               /\ slotStyle(doc, n, ~isStroke) = NullRec) =>
                                 \E g \in 1..Len(outbox[i].groups) :
                                    listedIn(outbox[i].groups[g], n, j, ~isStroke)

\* C15 witness: B's fill carries the id of a style whose lookup throws; A
\* was analysed and the reply lists B's fill and, after it, B's stroke
C15_Witness ==
    /\ visited("B")
    /\ doc["B"].fillStyleId \in StaleStyleIds
    /\ doc["B"].fills = <<Red>>
    /\ doc["B"].strokes = <<Red>>
    /\ \E i \in colorReplies :
          /\ reportedIn(i, "B", FALSE)
          /\ reportedIn(i, "B", TRUE)

\* C16: a selectionchange event that is not suppressed and finds nothing
\* selected empties rootFrameIds, sets rootFrameId to null, posts empty with
\* clearAll = true and nothing else, and starts no analysis.
C16_EmptySelectionClearsRoots ==
    [][(delivered /\ ~ignoringSelectionChange /\ selection = <<>>) =>
          /\ rootFrameIds' = <<>>
          /\ rootFrameId' = Null
          /\ outbox' = << [type |-> "empty", clearAll |-> TRUE] >>
          /\ analyzed' = <<>>
      ]_vars

\* C16 witness: in a session that had a selection, the handler has just run
\* on an empty selection
C16_Witness ==
    /\ console = <<"SELECTION CHANGED">>
    /\ selection = <<>>
    /\ initialSelectionIds.some
    /\ rootFrameIds = <<>>
    /\ outbox = << [type |-> "empty", clearAll |-> TRUE] >>

\* C17: a selectionchange event that is not suppressed and finds nodes
\* selected ends with rootFrameIds equal to the containers of the selected
\* nodes and with a result message of the active tab posted.
C17_SelectionResolvedAndAnalysed ==
    [][(delivered /\ ~ignoringSelectionChange /\ selection # <<>>) =>
          /\ rootFrameIds' = getValidFramesFromSelection(selection)
          /\ resultsIn(outbox') # <<>>
      ]_vars

(***************************************************************************)
(* SpecList: the list view is entered and left while the user changes the  *)
(* selection, snapshots are saved and the tab is switched                  *)
(***************************************************************************)
\* a session in the list view some of whose snapshotted nodes the user has
\* deleted since: ids is what enter-list-view stored, sel what is left
\* selected, and the selectionchange the deletion caused has been handled
listViewSession(sel, ids) ==
    LET containers == getValidFramesFromSelection(sel)
    IN  /\ doc = PlainDoc
        /\ currentPage = "P1"
        /\ selection = sel
        /\ pendingSel = 0
        /\ showHiddenElements = FALSE
        /\ currentTab = "colors"
        /\ ignoringSelectionChange = FALSE
        /\ rootFrameId = IF containers # <<>> THEN containers[1] ELSE Null
        /\ rootFrameIds = containers
        /\ initialSelectionIds = Some(ids)
        /\ cachedColorTokens = None
        /\ cachedTextTokens = None
        /\ cachedPageId = Null
        /\ originalNodeStates = <<>>
        /\ suspended = <<>>
        /\ analyzed = containers
        /\ outbox = IF containers # <<>>
                    THEN << [type |-> "selection-changed"],
                            analyzeColors(PlainDoc, FALSE, containers) >>
                    ELSE << [type |-> "empty", clearAll |-> TRUE] >>
        /\ console = <<"SELECTION CHANGED">>
        /\ applied = {}
        /\ roundTrip = NullRec
        /\ colorCacheOrigin = Null
        /\ textCacheOrigin = Null
        /\ request = NullRec
        /\ edits = 0

InitList ==
    \/ \E sel \in {<<>>, <<"A">>} : pluginStart(PlainDoc, "P1", sel)
    \/ listViewSession(<<>>, <<"gone">>)
    \/ listViewSession(<<"B">>, <<"gone", "B">>)

NextList ==
    \/ \E sel \in {<<>>, <<"A">>, <<"B">>, <<"R">>, <<"B", "T">>} : UserSelect(sel)
    \/ SelectionChange
    \/ SaveInitialSelection
    \/ EnterListView
    \/ SaveOriginalState(<<"B">>)
    \/ \E tab \in Tabs : SwitchTab(tab)
    \/ BackToList
    \/ \E i \in 1..MaxSuspended : BackToListResume(i)

SpecList == InitList /\ [][NextList]_vars

\* enter-list-view is handled in this step
entersListView ==
    Len(console') > 0 /\ console'[1] = "selecao inicial atualizada"

\* C18: after enter-list-view, with no selectionchange event outstanding,
\* initialSelectionIds holds the ids of the nodes selected and rootFrameIds
\* the containers resolved from that selection.
C18_ListViewTakesSelection ==
    [][(entersListView /\ pendingSel = 0) =>
          /\ initialSelectionIds' = Some(selection)
          /\ rootFrameIds' = getValidFramesFromSelection(selection)
      ]_vars

\* a back-to-list handler ends in this step: at once, or after its wait
backToListEnds ==
    \/ console' = <<"Voltando para lista...">> /\ suspended' = suspended
    \/ \E i \in 1..Len(suspended) :
          suspended[i].kind = "back-to-list" /\ suspended' = removeAt(suspended, i)

\* C19: when a back-to-list handler ends, initialSelectionIds is null and
\* originalNodeStates is empty, whether there was an initial selection or
\* not and whether its ids still resolved or not.
C19_BackToListClearsSession ==
    [][backToListEnds =>
          initialSelectionIds' = None /\ originalNodeStates' = <<>>]_vars

\* C19 witness: back-to-list has restored the frame A and analysed it again;
\* nothing is snapshotted any more
C19_Witness ==
    /\ console = <<"Re-analisando frames...">>
    /\ selection = <<"A">>
    /\ ~ignoringSelectionChange
    /\ initialSelectionIds = None
    /\ originalNodeStates = <<>>
    /\ resultsIn(outbox) # <<>>

\* C20: back-to-list with a non-empty initial selection sets the selection
\* to the snapshotted ids that still resolve, in their order, and, when it
\* has restored a selection, posts a result of the active tab before it ends.
C20_RestoredThenAnalysed ==
    [][/\ (/\ console' = <<"Voltando para lista...">>
           /\ restorableNodes(initialSelectionIds) # <<>>) =>
             selection' = restorableNodes(initialSelectionIds)
       /\ (\E i \in 1..Len(suspended) :
              /\ suspended[i].kind = "back-to-list"
              /\ suspended' = removeAt(suspended, i)) =>
             /\ resultsIn(outbox') # <<>>
             /\ outbox'[Len(outbox')].type =
                   IF currentTab = "colors" THEN "result-colors"
                   ELSE "result-typography"
      ]_vars

(***************************************************************************)
(* SpecTab: the user selects frames, sections and loose nodes of page P1   *)
(* and switches tab, toggles the visibility filter and asks for a new      *)
(* analysis                                                                *)
(***************************************************************************)
TabSelections == {<<>>, <<"A">>, <<"B">>, <<"R">>, <<"S">>, <<"E">>}

InitTab == \E sel \in {<<>>, <<"A">>, <<"S">>} : pluginStart(PlainDoc, "P1", sel)

NextTab ==
    \/ \E sel \in TabSelections : UserSelect(sel)
    \/ SelectionChange
    \/ \E tab \in Tabs : SwitchTab(tab)
    \/ \E value \in BOOLEAN : ToggleHidden(value)
    \/ Reanalyze

SpecTab == InitTab /\ [][NextTab]_vars

\* the type of the result message of a tab
resultTypeOf(tab) == IF tab = "colors" THEN "result-colors" ELSE "result-typography"

\* C21: switch-tab sets currentTab to the tab named; with an empty selection
\* it posts empty with clearAll and analyses nothing, whatever rootFrameIds
\* holds; with a non-empty selection from which a container resolves (or,
\* failing that, with rootFrameIds non-empty) it analyses containers of that
\* selection (or of rootFrameIds) and a result of the new tab's type follows.
C21_SwitchTabAnalysesSelection ==
    [][\A tab \in Tabs : SwitchTab(tab) =>
          /\ currentTab' = tab
          /\ selection = <<>> =>
                /\ outbox' = << [type |-> "empty", clearAll |-> TRUE] >>
                /\ analyzed' = <<>>
          /\ (/\ selection # <<>>
              /\ \/ getValidFramesFromSelection(selection) # <<>>
                 \/ rootFrameIds # <<>>) =>
                /\ analyzed' # <<>>
                /\ \A i \in 1..Len(analyzed') :
                      \/ \E j \in 1..Len(getValidFramesFromSelection(selection)) :
                            analyzed'[i] = getValidFramesFromSelection(selection)[j]
                      \/ \E j \in 1..Len(rootFrameIds) : analyzed'[i] = rootFrameIds[j]
                /\ Len(resultsIn(outbox')) = 1
                /\ outbox'[Len(outbox')].type = resultTypeOf(tab)
      ]_vars

\* C22: toggle-hidden sets the visibility filter to the value named and,
\* whenever rootFrameIds is non-empty or a container is selected, a result
\* of the active tab computed with the new filter value follows, on the
\* selected containers or, when none is selected, on those of rootFrameIds.
C22_ToggleHiddenReanalyses ==
    [][\A value \in BOOLEAN : ToggleHidden(value) =>
          /\ showHiddenElements' = value
          /\ (\/ rootFrameIds # <<>>
              \/ \E i \in 1..Len(selection) : isContainerType(NodeType[selection[i]])) =>
                /\ analyzed' # <<>>
                /\ outbox' = << analyzeTab(currentTab, doc, value, analyzed') >>
      ]_vars

(***************************************************************************)
(* SpecSuggest: suggestion lists are requested on documents whose page P1  *)
(* uses a paint style with a private name, or no paint style at all        *)
(***************************************************************************)
\* R's fill as it is without a paint style
UnstyledDoc == [PlainDoc EXCEPT !["R"].fillStyleId = NoStyle]

SuggestDocs ==
    {PlainDoc, UnstyledDoc,
     setFillStyleId(PlainDoc, "B", "S_draft"),
     setFillStyleId(UnstyledDoc, "B", "S_brand"),
     setTextStyleId(UnstyledDoc, "T", "T_head")}

InitSuggest == \E d \in SuggestDocs : pluginStart(d, "P1", <<"A">>)

NextSuggest ==
    \/ \E nodeId \in {Null, "T"} : GetSuggestedTokens(nodeId)
    \/ \E p \in Pages : UserChangePage(p)
    \/ \E sel \in {<<>>, <<"A">>, <<"G">>} : UserSelect(sel)
    \/ SelectionChange
    \/ \E tab \in Tabs : SwitchTab(tab)

SpecSuggest == InitSuggest /\ [][NextSuggest]_vars

\* the suggestion replies among the messages of the latest step
suggestionReplies ==
    {i \in 1..Len(outbox) :
        outbox[i].type \in {"result-suggested-tokens", "result-suggested-text-tokens"}}

\* C23: no token of a result-suggested-tokens or result-suggested-text-tokens
\* reply has a display name that, after prefix stripping, is empty or starts
\* with "_" or "/".
C23_NoPrivateNameOffered ==
    \A i \in suggestionReplies :
       \A k \in 1..Len(outbox[i].tokens) :
          isValidTokenName(removeTokenPrefix(outbox[i].tokens[k].name))

\* the latest step walked the page for the list it answered with
walkedFor(tab) == answered(tab) /\ console = <<>>

\* C24: when the walk of the current page finds no token in use, the text
\* collector offers every local text style, and the color collector does not
\* answer with an empty list while the document defines paint styles.
C24_FallsBackToLocalStyles ==
    /\ (/\ walkedFor("typography")
        /\ textStyleIdsInFile(doc, preOrder(Children[currentPage])) = <<>>) =>
          \A j \in 1..Len(LocalTextStyles) :
             \E k \in 1..Len(outbox[1].tokens) :
                outbox[1].tokens[k].styleId = LocalTextStyles[j]
    /\ (/\ walkedFor("colors")
        /\ colorTokensOfPage(doc, currentPage) = <<>>
        /\ LocalPaintStyles # <<>>) =>
          outbox[1].tokens # <<>>

(***************************************************************************)
(* SpecBatch: tokens are applied to and removed from batches of nodes,     *)
(* some of which do not resolve, with tokens some of which do not resolve, *)
(* on documents where B's first fill is a gradient or B's fill style is    *)
(* deleted                                                                 *)
(***************************************************************************)
BatchDocs ==
    {PlainDoc, withSlot(PlainDoc, "B", FALSE, "gradient"),
     withSlot(PlainDoc, "B", FALSE, "gone")}

BatchNodeIds == {<<"B", "D">>, <<"gone", "D">>}

BatchStyleIds == {"V_blue", "S_brand", "S_gone"}

TextBatchStyleIds == {"T_body", "S_brand"}

InitBatch == \E d \in BatchDocs : pluginStart(d, "P1", <<"A">>)

NextBatch ==
    \/ SaveOriginalState(<<"B", "D">>)
    \/ \E nodeIds \in BatchNodeIds, styleId \in BatchStyleIds :
          ApplyTokenMultiple(nodeIds, styleId, FALSE)
    \/ \E nodeIds \in BatchNodeIds, styleId \in BatchStyleIds :
          ApplyToken(nodeIds, styleId, FALSE, FALSE)
    \/ \E styleId \in TextBatchStyleIds : ApplyToken(<<"T">>, styleId, FALSE, TRUE)
    \/ \E styleId \in TextBatchStyleIds :
          ApplyTypographyTokenMultiple(<<"T", "B">>, styleId, FontsReady)
    \/ \E nodeIds \in BatchNodeIds : RemoveColorToken(nodeIds, FALSE)
    \/ RemoveTextToken(<<"T", "gone">>)

SpecBatch == InitBatch /\ [][NextBatch]_vars

\* the terminal messages of an apply among the messages of one step
terminalsIn(box) ==
    LET isTerminal(m) == m.type \in {"token-applied-success", "token-applied-error"}
    IN  SelectSeq(box, isTerminal)

\* the id names a color variable or a paint style
resolvesForColor(styleId) ==
    \/ getVariableById(styleId) # NullRec
       /\ getVariableById(styleId).resolvedType = "COLOR"
    \/ getStyleById(styleId) # NullRec /\ getStyleById(styleId).type = "PAINT"

\* the id names a text style
resolvesForText(styleId) ==
    getStyleById(styleId) # NullRec /\ getStyleById(styleId).type = "TEXT"

\* C25: an apply-token or apply-token-multiple whose styleId resolves
\* neither to a color variable nor to a paint style (for a text apply: not to
\* a text style) reports token-applied-error and not token-applied-success.
C25_UnresolvedTokenReported ==
    [][/\ \A nodeIds \in BatchNodeIds, styleId \in BatchStyleIds :
             (/\ \/ ApplyTokenMultiple(nodeIds, styleId, FALSE)
                 \/ ApplyToken(nodeIds, styleId, FALSE, FALSE)
              /\ ~resolvesForColor(styleId)) =>
                /\ Len(terminalsIn(outbox')) = 1
                /\ terminalsIn(outbox')[1].type = "token-applied-error"
       /\ \A styleId \in TextBatchStyleIds :
             (ApplyToken(<<"T">>, styleId, FALSE, TRUE) /\ ~resolvesForText(styleId)) =>
                /\ Len(terminalsIn(outbox')) = 1
                /\ terminalsIn(outbox')[1].type = "token-applied-error"
      ]_vars

\* an apply message of one of the three kinds is handled in this step
applyHandled ==
    \/ \E nodeIds \in BatchNodeIds, styleId \in BatchStyleIds :
          \/ ApplyTokenMultiple(nodeIds, styleId, FALSE)
          \/ ApplyToken(nodeIds, styleId, FALSE, FALSE)
    \/ \E styleId \in TextBatchStyleIds :
          \/ ApplyToken(<<"T">>, styleId, FALSE, TRUE)
          \/ ApplyTypographyTokenMultiple(<<"T", "B">>, styleId, FontsReady)

\* C26: every apply-token, apply-token-multiple and
\* apply-typography-token-multiple message is answered by exactly one
\* terminal message, token-applied-success or token-applied-error, also when
\* a host call throws during the operation.
C26_OneTerminalMessage ==
    [][applyHandled => Len(terminalsIn(outbox')) = 1]_vars

\* the node as apply-token-multiple leaves it when the batch holds it alone
aloneMultiple(nodeId, styleId) ==
    applyMultipleAll([d |-> doc, msgs |-> <<>>, bound |-> <<>>, thrown |-> FALSE,
                      last |-> <<styleId>>],
                     <<nodeId>>, styleId, FALSE).d[nodeId]

\* the node as apply-token leaves it when the batch holds it alone
aloneApply(nodeId, styleId) ==
    applyAll([d |-> doc, msgs |-> <<>>, bound |-> <<>>, thrown |-> FALSE],
             <<nodeId>>, styleId, FALSE, FALSE, getVariableById(styleId)).d[nodeId]

\* C27: in a batch operation a failure on one node (its id does not resolve,
\* or a host call throws for it) does not keep the operation from the other
\* nodes: every node of the batch that resolves is left as the operation
\* leaves it when the batch holds that node alone.
C27_EveryNodeAttempted ==
    [][\A nodeIds \in BatchNodeIds :
          \A i \in 1..Len(nodeIds) :
             getNodeById(nodeIds[i]) # Null =>
                /\ \A styleId \in BatchStyleIds :
                      /\ ApplyTokenMultiple(nodeIds, styleId, FALSE) =>
                            doc'[nodeIds[i]] = aloneMultiple(nodeIds[i], styleId)
                      /\ ApplyToken(nodeIds, styleId, FALSE, FALSE) =>
                            doc'[nodeIds[i]] = aloneApply(nodeIds[i], styleId)
                /\ RemoveColorToken(nodeIds, FALSE) =>
                      doc'[nodeIds[i]] = removeColorOne(doc, nodeIds[i], FALSE)[nodeIds[i]]
      ]_vars

\* C28: remove-color-token and remove-text-token end by posting exactly one
\* token-removed-success and no error message, whether or not the nodes
\* named resolve, have a snapshot or a binding, or a restore step throws.
C28_RemoveAlwaysSucceeds ==
    [][((\E nodeIds \in BatchNodeIds : RemoveColorToken(nodeIds, FALSE))
        \/ RemoveTextToken(<<"T", "gone">>)) =>
          outbox' = << [type |-> "token-removed-success"] >>
      ]_vars

\* C28 witness: remove-color-token has been answered with the success
\* message although the restore of B's snapshot, whose fill style is
\* deleted, threw
C28_Witness ==
    /\ console = <<"remove-color-token recebido", "Erro ao remover token de cor">>
    /\ outbox = << [type |-> "token-removed-success"] >>
    /\ "B" \in DOMAIN originalNodeStates
    /\ getStyleById(originalNodeStates["B"].fillStyleId) = NullRec

(***************************************************************************)
(* Handlers in flight.  A handler is an async function: at an await whose  *)
(* promise the host resolves later, the handler is suspended and another   *)
(* message or event may be handled before it goes on.  How long the host   *)
(* takes is left open, so a suspended handler may go on at any later step. *)
(***************************************************************************)
\* the getStyleByIdAsync calls analyzeColors makes for one paint: one in
\* hasValidColorToken, one for the name of a paint it reports
paintLookups(d, n, paint, isStroke) ==
    LET styleId == IF isStroke THEN d[n].strokeStyleId ELSE d[n].fillStyleId
        bound == hasSlot(n, isStroke) /\ isBoundStyleId(styleId)
    IN  IF paint.visible = FALSE \/ paint.type \in {"IMAGE", "VIDEO", "PATTERN"}
        THEN 0
        ELSE IF paint.type = "SOLID" /\ hasBoundColor(paint) THEN 0
        ELSE (IF bound /\ ~typeStartsWithGradient(paint) THEN 1 ELSE 0)
             + (IF bound /\ processPaint(d, n, paint, 1, isStroke) # <<>>
                THEN 1 ELSE 0)

RECURSIVE paintsLookups(_, _, _, _)
paintsLookups(d, n, paints, isStroke) ==
    IF paints = <<>> THEN 0
    ELSE paintLookups(d, n, Head(paints), isStroke)
         + paintsLookups(d, n, Tail(paints), isStroke)

RECURSIVE walkLookups(_, _, _)
RECURSIVE walkLookupsList(_, _, _)
walkLookups(d, show, n) ==
    IF ~show /\ ~d[n].visible THEN 0
    ELSE (IF hasFills(n) THEN paintsLookups(d, n, d[n].fills, FALSE) ELSE 0)
         + (IF hasStrokes(n) THEN paintsLookups(d, n, d[n].strokes, TRUE) ELSE 0)
         + walkLookupsList(d, show, Children[n])

walkLookupsList(d, show, list) ==
    IF list = <<>> THEN 0
    ELSE walkLookups(d, show, Head(list)) + walkLookupsList(d, show, Tail(list))

\* the host calls a walk of analyzeColors over the nodes waits for; a walk
\* of analyzeTypography waits for none and ends in the turn it starts in
colorLookups(d, show, nodes) == walkLookupsList(d, show, nodes)

walksInFlight == {i \in 1..Len(suspended) : suspended[i].kind = "analyzeColors"}

\* a walk of analyzeColors that has been started and is waiting for the host
walkOf(nodes) ==
    [kind |-> "analyzeColors", nodes |-> nodes,
     left |-> colorLookups(doc, showHiddenElements, nodes)]

\* selectionchange on the colors tab, up to the first style lookup of the walk
SelectionChangeWalk ==
    /\ pendingSel > 0
    /\ ~ignoringSelectionChange
    /\ selection # <<>>
    /\ currentTab = "colors"
    /\ Cardinality(walksInFlight) < MaxSuspended
    /\ pendingSel' = pendingSel - 1
    /\ LET containers == getValidFramesFromSelection(selection)
       IN  /\ containers # <<>>
           /\ colorLookups(doc, showHiddenElements, containers) > 0
           /\ rootFrameIds' = containers
           /\ rootFrameId' = containers[1]
           /\ outbox' = << [type |-> "selection-changed"] >>
                        \o (IF containers # rootFrameIds
                            THEN << [type |-> "frame-changed"] >> ELSE <<>>)
           /\ analyzed' = containers
           /\ suspended' = Append(suspended, walkOf(containers))
    /\ console' = <<"SELECTION CHANGED">>
    /\ keepHistory
    /\ UNCHANGED <<doc, currentPage, selection, showHiddenElements, currentTab,
                   ignoringSelectionChange, initialSelectionIds, cachedColorTokens,
                   cachedTextTokens, cachedPageId, originalNodeStates>>

\* switch-tab to the colors tab, up to the first style lookup of the walk
\* (the handler does not await the analysis it starts)
SwitchTabWalk(tab) ==
    /\ tab = "colors"
    /\ Cardinality(walksInFlight) < MaxSuspended
    /\ currentTab' = tab
    /\ LET validNodes == switchTabContainers(selection, rootFrameIds)
       IN  /\ validNodes # <<>>
           /\ colorLookups(doc, showHiddenElements, validNodes) > 0
           /\ analyzed' = validNodes
           /\ suspended' = Append(suspended, walkOf(validNodes))
    /\ quiet
    /\ keepHistory
    /\ UNCHANGED <<hostVars, showHiddenElements, ignoringSelectionChange,
                   rootFrameId, rootFrameIds, initialSelectionIds, cachedColorTokens,
                   cachedTextTokens, cachedPageId, originalNodeStates>>

\* a style lookup of a walk in flight returns: the walk goes on to its next
\* lookup or, after the last one, posts its result
WalkResume(i) ==
    /\ i \in walksInFlight
    /\ IF suspended[i].left > 1
       THEN /\ suspended' = [suspended EXCEPT ![i].left = @ - 1]
            /\ outbox' = <<>>
       ELSE /\ suspended' = removeAt(suspended, i)
            /\ outbox' = << analyzeColors(doc, showHiddenElements, suspended[i].nodes) >>
    /\ console' = <<>>
    /\ keepHistory
    /\ UNCHANGED <<hostVars, showHiddenElements, currentTab,
                   ignoringSelectionChange, rootFrameId, rootFrameIds,
                   initialSelectionIds, cachedColorTokens, cachedTextTokens,
                   cachedPageId, originalNodeStates, analyzed>>

(***************************************************************************)
(* SpecWalk: the user changes the selection and the tab while walks of     *)
(* analyzeColors wait for the host; B's fill carries the style Local/Red   *)
(***************************************************************************)
WalkDoc == withSlot(PlainDoc, "B", FALSE, "local")

InitWalk == \E sel \in {<<>>, <<"A">>} : pluginStart(WalkDoc, "P1", sel)

NextWalk ==
    \/ \E sel \in {<<>>, <<"A">>, <<"F">>} : UserSelect(sel)
    \/ SelectionChange
    \/ SelectionChangeWalk
    \/ \E tab \in Tabs : SwitchTab(tab)
    \/ \E tab \in Tabs : SwitchTabWalk(tab)
    \/ \E i \in 1..MaxSuspended : WalkResume(i)

SpecWalk == InitWalk /\ [][NextWalk]_vars

\* the containers a request made now would analyse
currentContainers ==
    {rootFrameIds, getValidFramesFromSelection(selection),
     targetContainers(selection, rootFrameIds),
     switchTabContainers(selection, rootFrameIds)}

\* C30: once every analysis in flight has finished and every selection
\* change has been delivered, the result posted last is that of the most
\* recent request: of the current tab, on the current containers.
C30_LastResultIsOfLatestRequest ==
    (walksInFlight = {} /\ pendingSel = 0 /\ resultsIn(outbox) # <<>>) =>
        \E nodes \in currentContainers :
           outbox[Len(outbox)] =
               analyzeTab(currentTab, doc, showHiddenElements, nodes)

(***************************************************************************)
(* apply-token-multiple in flight: the handler is suspended at each of its *)
(* awaits (node lookup, variable lookup, style lookup, style assignment)   *)
(* and other apply messages are handled meanwhile                          *)
(***************************************************************************)
appliesInFlight ==
    {i \in 1..Len(suspended) : suspended[i].kind = "apply-token-multiple"}

\* the paint list the map over node.fills / node.strokes works on, as it
\* would be if the list were read when the node was looked up
paintsMappedAtLookup(seen, current) == seen

\* the paint list the map over node.fills / node.strokes works on: the list
\* is read in the turn that writes it (seen: history, the list the node had
\* when it was looked up)
paintsMapped(seen, current) == current

\* the message arrives: the handler runs up to its first node lookup
ApplyMultipleStart(nodeIds, styleId, isStroke) ==
    /\ edits < MaxEdits
    /\ nodeIds # <<>>
    /\ suspended' = Append(suspended,
                           [kind |-> "apply-token-multiple", nodeIds |-> nodeIds,
                            styleId |-> styleId, isStroke |-> isStroke,
                            pc |-> "node", last |-> <<styleId>>, seen |-> <<>>])
    /\ quiet /\ noAnalysis
    /\ request' = NullRec
    /\ applied' = {}
    /\ roundTrip' = NullRec
    /\ edits' = edits + 1
    /\ UNCHANGED <<hostVars, showHiddenElements, currentTab,
                   ignoringSelectionChange, rootFrameId, rootFrameIds,
                   initialSelectionIds, cachedColorTokens, cachedTextTokens,
                   cachedPageId, originalNodeStates, colorCacheOrigin,
                   textCacheOrigin>>

\* the host call the handler waits on returns: the handler runs up to its
\* next await, or to its end
ApplyMultipleResume(i) ==
    /\ i \in appliesInFlight
    /\ LET t == suspended[i]
           nodeId == Head(t.nodeIds)
           node == getNodeById(nodeId)
           variable == getVariableById(t.styleId)
           style == getStyleById(t.styleId)
           current == slotPaints(doc, node, t.isStroke)
           \* the pass is over: on to the lookup of the next node, or the
           \* success message after the last one
           passDone(msgs, last) ==
               IF Tail(t.nodeIds) = <<>>
               THEN /\ suspended' = removeAt(suspended, i)
                    /\ outbox' = Append(msgs, [type |-> "token-applied-success",
                                               styleName |-> last,
                                               styleId |-> t.styleId])
               ELSE /\ suspended' = [suspended EXCEPT
                                        ![i] = [t EXCEPT !.nodeIds = Tail(t.nodeIds),
                                                         !.pc = "node",
                                                         !.last = last,
                                                         !.seen = <<>>]]
                    /\ outbox' = msgs
           waitAt(pc) ==
               /\ suspended' = [suspended EXCEPT ![i].pc = pc]
               /\ outbox' = <<>>
       IN  CASE t.pc = "node" ->
                  IF node = Null \/ ~isSceneNode(node)
                  THEN passDone(<<>>, t.last) /\ doc' = doc
                  ELSE /\ suspended' = [suspended EXCEPT
                                           ![i] = [t EXCEPT !.pc = "variable",
                                                            !.seen = current]]
                       /\ outbox' = <<>>
                       /\ doc' = doc
             [] t.pc = "variable" ->
                  IF variable # NullRec /\ variable.resolvedType = "COLOR"
                  THEN LET paints == paintsMapped(t.seen, current)
                           can == hasSlot(node, t.isStroke) /\ Len(paints) > 0
                           name == removeTokenPrefix(variable.name)
                       IN  IF can /\ paints[1].type # "SOLID"
                           THEN /\ suspended' = removeAt(suspended, i)
                                /\ outbox' = <<>>
                                /\ doc' = doc
                           ELSE /\ doc' = IF can
                                          THEN setSlotPaints(doc, node, t.isStroke,
                                                   bindFirstPaint(paints, variable))
                                          ELSE doc
                                /\ passDone(<< updateDetail(node, name, variable.id) >>,
                                            name)
                  ELSE waitAt("style") /\ doc' = doc
             [] t.pc = "style" ->
                  IF style = NullRec \/ style.type # "PAINT"
                  THEN passDone(<<>>, t.last) /\ doc' = doc
                  ELSE IF hasSlot(node, t.isStroke)
                  THEN /\ doc' = setSlotStyleId(doc, node, t.isStroke, t.styleId)
                       /\ waitAt("assign")
                  ELSE /\ doc' = doc
                       /\ passDone(<< updateDetail(node, removeTokenPrefix(style.name),
                                                   style.id) >>,
                                   removeTokenPrefix(style.name))
             [] OTHER ->
                  /\ doc' = doc
                  /\ passDone(<< updateDetail(node, removeTokenPrefix(style.name),
                                              style.id) >>,
                              removeTokenPrefix(style.name))
    /\ console' = <<>>
    /\ noAnalysis
    /\ request' = NullRec
    /\ UNCHANGED <<currentPage, selection, pendingSel, showHiddenElements,
                   currentTab, ignoringSelectionChange, rootFrameId, rootFrameIds,
                   initialSelectionIds, cachedColorTokens, cachedTextTokens,
                   cachedPageId, originalNodeStates, applied, roundTrip,
                   colorCacheOrigin, textCacheOrigin, edits>>

(***************************************************************************)
(* SpecApply: apply-token-multiple messages for B and D arrive while       *)
(* earlier ones are in flight; B has two fills                             *)
(***************************************************************************)
ApplyDoc == withSlot(PlainDoc, "B", FALSE, "two")

ApplyNodeIds == {<<"B">>, <<"B", "D">>}

ApplyStyleIds == {"V_blue", "S_brand", "S_gray"}

InitApply == pluginStart(ApplyDoc, "P1", <<"A">>)

NextApply ==
    \/ \E nodeIds \in ApplyNodeIds, styleId \in ApplyStyleIds :
          ApplyMultipleStart(nodeIds, styleId, FALSE)
    \/ \E i \in 1..MaxEdits : ApplyMultipleResume(i)

SpecApply == InitApply /\ [][NextApply]_vars

\* the handler in flight has looked its current node up and has not yet
\* ended the pass for it
midPass(i) == suspended[i].pc \in {"variable", "style", "assign"}

\* C29 as stated: the steps made on a node for one entry of an apply request
\* (its lookup, its reads, its write) run all before or all after those made
\* for an entry of another request: no two handlers are in the middle of a
\* pass for the same node.
C29_AppliesNeverOverlap ==
    \A i, j \in appliesInFlight :
       (i # j /\ midPass(i) /\ midPass(j)) =>
           Head(suspended[i].nodeIds) # Head(suspended[j].nodeIds)

\* C29: handlers of apply messages overlap at their awaits, but no apply
\* writes a paint list or binding computed from a state that another apply
\* has since changed: whenever the fill of a node changes, it becomes what
\* applying one token to the node as it is at that moment makes of it.
C29_WriteComputedFromCurrentState ==
    [][\A n \in NodeIds :
          doc'[n] # doc[n] =>
             \E styleId \in ApplyStyleIds : doc'[n] = aloneMultiple(n, styleId)
      ]_vars

\* C29 witness: a handler is about to bind the variable to B, whose fills
\* another apply has changed since this handler looked B up
C29_Witness ==
    \E i \in appliesInFlight :
       /\ suspended[i].pc = "variable"
       /\ Head(suspended[i].nodeIds) = "B"
       /\ suspended[i].styleId = "V_blue"
       /\ suspended[i].seen # doc["B"].fills

(***************************************************************************)
(* SpecFont: tokens are applied while the host has not loaded, or cannot   *)
(* load, some of the fonts                                                 *)
(***************************************************************************)
\* the text R with one font, or with ranges of several fonts
FontDocs == {PlainDoc, [PlainDoc EXCEPT !["R"].fontName = MixedFont]}

FontNodeIds == {<<"T", "R">>, <<"R", "B", "T">>}

FontStyleIds == {"T_body", "T_head", "T_rob", "S_brand"}

\* nothing loaded yet, the font of T loaded, or all of them; every font can
\* be loaded, or one of them cannot
FontStates ==
    {[loaded |-> l, missing |-> m] :
        <<l, m>> \in {lm \in {{}, {font(Inter, Regular)}, AllFonts}
                              \X {{}, {font(Roboto, Regular)}, {font(Inter, Bold)}} :
                         lm[1] \cap lm[2] = {}}}

InitFont == \E d \in FontDocs : pluginStart(d, "P1", <<"A">>)

NextFont ==
    \/ \E nodeIds \in FontNodeIds, styleId \in FontStyleIds, fonts \in FontStates :
          ApplyTypographyTokenMultiple(nodeIds, styleId, fonts)
    \/ \E styleId \in {"T_body", "S_brand"} : ApplyToken(<<"T", "B">>, styleId, FALSE, TRUE)
    \/ \E styleId \in {"V_blue", "S_brand", "S_gone"}, isStroke \in BOOLEAN :
          ApplyToken(<<"B", "D">>, styleId, isStroke, FALSE)
    \/ \E styleId \in {"V_blue", "S_brand", "S_gone"}, isStroke \in BOOLEAN :
          ApplyTokenMultiple(<<"B", "D">>, styleId, isStroke)

SpecFont == InitFont /\ [][NextFont]_vars

\* the tokens node n is bound to: its style ids and the variables of its paints
bindingsOf(d, n) ==
    ({d[n].fillStyleId, d[n].strokeStyleId, d[n].textStyleId} \ {NoStyle})
    \cup {d[n].fills[i].boundVariables : i \in 1..Len(d[n].fills)}
    \cup {d[n].strokes[i].boundVariables : i \in 1..Len(d[n].strokes)}

\* the names the interface shows a token under
displayNames(token) ==
    IF token \in VariableIds THEN {removeTokenPrefix(VariableTable[token].name)}
    ELSE IF token \in StyleIds
    THEN {StyleTable[token].name, removeTokenPrefix(StyleTable[token].name)}
    ELSE {}

\* C31: when a step posts token-applied-success for a token, every node the
\* step bound that token to has, earlier among the messages of the step, an
\* update-detail message with the node's id, the token's id and the token's
\* display name
C31_UpdateDetailBeforeSuccess ==
    [][\A k \in 1..Len(outbox') :
          outbox'[k].type = "token-applied-success" =>
             \A n \in NodeIds :
                outbox'[k].styleId \in bindingsOf(doc', n) \ bindingsOf(doc, n) =>
                   \E j \in 1..(k - 1) :
                      /\ outbox'[j].type = "update-detail"
                      /\ outbox'[j].nodeId = n
                      /\ outbox'[j].styleId = outbox'[k].styleId
                      /\ outbox'[j].styleName \in displayNames(outbox'[k].styleId)]_vars

\* C32: apply-typography-token-multiple on nodes that are not yet bound to
\* the style: a text node with one font ends up bound exactly when the font
\* of the style and the font of the node can both be loaded, whether or not
\* they were loaded before; token-applied-success is posted exactly when a
\* node was bound and token-applied-error exactly when none was; the success
\* message carries the count of the text nodes whose first attempt failed
C32_FallbackAndOutcome ==
    [][\A nodeIds \in FontNodeIds, styleId \in FontStyleIds, fonts \in FontStates :
          (/\ ApplyTypographyTokenMultiple(nodeIds, styleId, fonts)
           /\ \A n \in Range(nodeIds) : doc[n].textStyleId # styleId) =>
             LET isText(n) == NodeType[n] = "TEXT"
                 texts == SelectSeq(nodeIds, isText)
                 boundNow == {n \in Range(nodeIds) : doc'[n].textStyleId = styleId}
                 isDetail(m) == m.type = "update-detail"
                 isSuccess(m) == m.type = "token-applied-success"
                 isError(m) == m.type = "token-applied-error"
                 needed == Len(texts) - Len(SelectSeq(outbox', isDetail))
                 last == outbox'[Len(outbox')]
             IN  /\ \A n \in Range(texts) :
                       (styleId \in TextStyleIds /\ doc[n].fontName # MixedFont) =>
                          (n \in boundNow <=>
                              /\ StyleTable[styleId].fontName \notin fonts.missing
                              /\ doc[n].fontName \notin fonts.missing)
                 /\ Len(SelectSeq(outbox', isSuccess)) = IF boundNow # {} THEN 1 ELSE 0
                 /\ Len(SelectSeq(outbox', isError)) = IF boundNow = {} THEN 1 ELSE 0
                 /\ isSuccess(last) \/ isError(last)
                 /\ isSuccess(last) =>
                       last.styleName =
                          IF needed > 0
                          THEN StyleTable[styleId].name \o fontNotAvailable(needed)
                          ELSE StyleTable[styleId].name]_vars

\* apply-typography-token-multiple has bound nodes at the second attempt
\* only: it reports success and the count of fallbacks, and has posted no
\* update-detail
C32_Witness ==
    /\ roundTrip # NullRec
    /\ roundTrip.via = "apply-typography-token-multiple"
    /\ Len(outbox) = 1
    /\ outbox[1].type = "token-applied-success"
    /\ \E k \in 1..2 :
          outbox[1].styleName = StyleTable[outbox[1].styleId].name \o fontNotAvailable(k)
    /\ doc[roundTrip.node].textStyleId = outbox[1].styleId

(***************************************************************************)
(* analyzeColors, one turn of the event loop at a time: the walk runs      *)
(* until a paint needs a style looked up, waits for the host, and goes on  *)
(* when the lookup returns; other handlers run while it waits              *)
(***************************************************************************)
\* a step the walk has still to make: visit a node, process a paint of a
\* node, or wait for the style lookups (left) of the paint it is processing
scanItem(k, n, idx, isStroke, left) ==
    [k |-> k, n |-> n, idx |-> idx, isStroke |-> isStroke, left |-> left]

nodeItems(list) == [j \in 1..Len(list) |-> scanItem("node", list[j], 0, FALSE, 0)]

paintItems(d, n, isStroke) ==
    IF hasSlot(n, isStroke)
    THEN [j \in 1..Len(slotPaints(d, n, isStroke)) |-> scanItem("paint", n, j, isStroke, 0)]
    ELSE <<>>

\* the walk as it would be if it posted its result at the first style lookup
\* instead of waiting for it
RECURSIVE scanRunUntilLookup(_, _, _)
scanRunUntilLookup(t, d, show) ==
    LET from(w) ==
        IF w.todo = <<>> THEN w
        ELSE LET h == Head(w.todo)
                 rest == Tail(w.todo)
             IN  IF h.k = "node"
                 THEN IF ~show /\ ~d[h.n].visible
                      THEN scanRunUntilLookup([w EXCEPT !.todo = rest], d, show)
                      ELSE scanRunUntilLookup(
                               [w EXCEPT !.todo = paintItems(d, h.n, FALSE)
                                                 \o paintItems(d, h.n, TRUE)
                                                 \o nodeItems(SelectSeq(Children[h.n], isSceneNode))
                                                 \o rest], d, show)
                 ELSE [w EXCEPT !.todo = <<>>]
    IN  CHOOSE r \in {from(w) : w \in {t}} : TRUE

\* the synchronous part of the walk: from the head of todo up to the next
\* style lookup, or to the end (w: the value of t, computed once)
RECURSIVE scanRun(_, _, _)
scanRun(t, d, show) ==
    LET from(w) ==
        IF w.todo = <<>> THEN w
        ELSE LET h == Head(w.todo)
                 rest == Tail(w.todo)
             IN  IF h.k = "node"
                 THEN IF ~show /\ ~d[h.n].visible
                      THEN scanRun([w EXCEPT !.todo = rest], d, show)
                      ELSE scanRun([w EXCEPT !.todo = paintItems(d, h.n, FALSE)
                                                     \o paintItems(d, h.n, TRUE)
                                                     \o nodeItems(SelectSeq(Children[h.n],
                                                                            isSceneNode))
                                                     \o rest], d, show)
                 ELSE IF h.k = "paint"
                 THEN LET paint == slotPaints(d, h.n, h.isStroke)[h.idx]
                          lookups == paintLookups(d, h.n, paint, h.isStroke)
                      IN  IF lookups = 0
                          THEN scanRun([w EXCEPT !.todo = rest,
                                                 !.occs = @ \o processPaint(d, h.n, paint, h.idx,
                                                                            h.isStroke)],
                                       d, show)
                          ELSE [w EXCEPT !.todo = <<[h EXCEPT !.k = "wait",
                                                              !.left = lookups]>> \o rest]
                 ELSE w
    IN  CHOOSE r \in {from(w) : w \in {t}} : TRUE

scansInFlight == {i \in 1..Len(suspended) : suspended[i].kind = "scanColors"}

scanResult(t) == [type |-> "result-colors", groups |-> groupColors(t.occs)]

\* a handler calls analyzeColors or analyzeTypography: the messages posted
\* in the handler's own turn and the walk left waiting, if any
startAnalysis(tab, nodes, show) ==
    IF tab = "typography"
    THEN [msgs |-> << analyzeTypography(doc, show, nodes) >>, tasks |-> <<>>]
    ELSE LET t == scanRun([kind |-> "scanColors", nodes |-> nodes,
                           todo |-> nodeItems(nodes), occs |-> <<>>], doc, show)
         IN  IF t.todo = <<>> THEN [msgs |-> << scanResult(t) >>, tasks |-> <<>>]
             ELSE [msgs |-> <<>>, tasks |-> << t >>]

\* a handler that leaves a walk waiting needs a free place among the
\* suspended handlers; edits counts the walks left waiting so far
mayStart(started) ==
    started.tasks = <<>>
    \/ (edits < MaxEdits /\ Cardinality(scansInFlight) < MaxSuspended)

scanHistory(started) ==
    /\ request' = NullRec
    /\ edits' = edits + Len(started.tasks)
    /\ UNCHANGED <<applied, roundTrip, colorCacheOrigin, textCacheOrigin>>

ReanalyzeScan ==
    /\ LET validNodes == targetContainers(selection, rootFrameIds)
           started == startAnalysis(currentTab, validNodes, showHiddenElements)
       IN  /\ validNodes # <<>>
           /\ mayStart(started)
           /\ scanHistory(started)
           /\ outbox' = started.msgs
           /\ suspended' = suspended \o started.tasks
           /\ analyzed' = validNodes
    /\ console' = <<>>
    /\ UNCHANGED <<hostVars, showHiddenElements, currentTab,
                   ignoringSelectionChange, rootFrameId, rootFrameIds,
                   initialSelectionIds, cachedColorTokens, cachedTextTokens,
                   cachedPageId, originalNodeStates>>

ToggleHiddenScan(value) ==
    /\ showHiddenElements' = value
    /\ LET validNodes == targetContainers(selection, rootFrameIds)
           started == startAnalysis(currentTab, validNodes, value)
       IN  /\ validNodes # <<>>
           /\ mayStart(started)
           /\ scanHistory(started)
           /\ outbox' = started.msgs
           /\ suspended' = suspended \o started.tasks
           /\ analyzed' = validNodes
    /\ console' = <<>>
    /\ UNCHANGED <<hostVars, currentTab, ignoringSelectionChange, rootFrameId,
                   rootFrameIds, initialSelectionIds, cachedColorTokens,
                   cachedTextTokens, cachedPageId, originalNodeStates>>

SwitchTabScan(tab) ==
    /\ currentTab' = tab
    /\ LET validNodes == switchTabContainers(selection, rootFrameIds)
           started == startAnalysis(tab, validNodes, showHiddenElements)
       IN  /\ validNodes # <<>>
           /\ mayStart(started)
           /\ scanHistory(started)
           /\ outbox' = started.msgs
           /\ suspended' = suspended \o started.tasks
           /\ analyzed' = validNodes
    /\ console' = <<>>
    /\ UNCHANGED <<hostVars, showHiddenElements, ignoringSelectionChange,
                   rootFrameId, rootFrameIds, initialSelectionIds, cachedColorTokens,
                   cachedTextTokens, cachedPageId, originalNodeStates>>

\* a style lookup of a walk in flight returns
ScanResume(i) ==
    /\ i \in scansInFlight
    /\ LET t == suspended[i]
           h == Head(t.todo)
           paint == slotPaints(doc, h.n, h.isStroke)[h.idx]
       IN  IF h.left > 1
           THEN /\ suspended' = [suspended EXCEPT ![i].todo[1].left = @ - 1]
                /\ outbox' = <<>>
           ELSE \E next \in {scanRun([t EXCEPT !.todo = Tail(t.todo),
                                                !.occs = @ \o processPaint(doc, h.n, paint,
                                                                           h.idx, h.isStroke)],
                                      doc, showHiddenElements)} :
                   IF next.todo = <<>>
                   THEN /\ suspended' = removeAt(suspended, i)
                        /\ outbox' = << scanResult(next) >>
                   ELSE /\ suspended' = [suspended EXCEPT ![i] = next]
                        /\ outbox' = <<>>
    /\ console' = <<>>
    /\ keepHistory
    /\ UNCHANGED <<hostVars, showHiddenElements, currentTab,
                   ignoringSelectionChange, rootFrameId, rootFrameIds,
                   initialSelectionIds, cachedColorTokens, cachedTextTokens,
                   cachedPageId, originalNodeStates, analyzed>>

(***************************************************************************)
(* SpecScan: analyses are requested, and the filter and the tab changed,   *)
(* while walks of analyzeColors wait for the host. In frame A: D and T     *)
(* hidden, B's fill bound to the style Local/Red, T with a fill. A style   *)
(* lookup the host has accepted returns after finitely many turns.         *)
(***************************************************************************)
\* B's fill bound to a style outside the allow-list, to an allow-listed
\* one, or to a style that was deleted; D and T hidden, or T alone
ScanDocs ==
    {hide([withSlot(PlainDoc, "B", FALSE, config) EXCEPT !["T"].fills = <<Green>>],
          hidden) :
        config \in {"local", "brand", "gone"}, hidden \in {{"D", "T"}, {"T"}}}

InitScan ==
    \E d \in ScanDocs, sel \in {<<"A">>, <<"B", "D">>} : pluginStart(d, "P1", sel)

NextScan ==
    \/ ReanalyzeScan
    \/ \E value \in BOOLEAN : ToggleHiddenScan(value)
    \/ \E tab \in Tabs : SwitchTabScan(tab)
    \/ \E i \in 1..MaxSuspended : ScanResume(i)

SpecScan ==
    /\ InitScan /\ [][NextScan]_vars
    /\ \A i \in 1..MaxSuspended : WF_vars(ScanResume(i))

\* the (node, slot, position) triples a color reply lists
paintsListed(reply) ==
    {<<occurrence(reply, p).nodeId, occurrence(reply, p).isStroke,
       occurrence(reply, p).paintIndex>> : p \in occurrencesOf(reply)}

\* the reply lists what a walk of the containers to their end lists: every
\* paint a walk reports with the filter on, and none a walk with the filter
\* off would not report
walkedToTheEnd(reply, nodes) ==
    /\ paintsListed(analyzeColors(doc, FALSE, nodes)) \subseteq paintsListed(reply)
    /\ paintsListed(reply) \subseteq paintsListed(analyzeColors(doc, TRUE, nodes))

\* what a handler that calls the analysis of a tab may leave: one result of
\* the tab's type posted in its turn, or one walk of the colors waiting
oneAnalysisStarted(tab, show, nodes) ==
    \/ /\ suspended' = suspended
       /\ Len(outbox') = 1
       /\ outbox'[1].type = resultTypeOf(tab)
       /\ IF tab = "colors" THEN walkedToTheEnd(outbox'[1], nodes)
          ELSE outbox'[1] = analyzeTypography(doc, show, nodes)
    \/ /\ tab = "colors"
       /\ Len(suspended') = Len(suspended) + 1
       /\ outbox' = <<>>

\* C33: a handler that calls analyzeColors or analyzeTypography posts one
\* result of that type in its turn or leaves one walk of the colors waiting;
\* a walk that waits posts nothing until it ends, and when it ends it posts
\* one result-colors that lists its containers walked to the end; and every
\* walk ends: from some point on no walk is waiting.
C33_OneResultAfterCompleteWalk ==
    /\ [][/\ ReanalyzeScan =>
                oneAnalysisStarted(currentTab, showHiddenElements,
                                   targetContainers(selection, rootFrameIds))
          /\ \A value \in BOOLEAN :
                ToggleHiddenScan(value) =>
                   oneAnalysisStarted(currentTab, value,
                                      targetContainers(selection, rootFrameIds))
          /\ \A tab \in Tabs :
                SwitchTabScan(tab) =>
                   oneAnalysisStarted(tab, showHiddenElements,
                                      switchTabContainers(selection, rootFrameIds))
          /\ \A i \in 1..MaxSuspended :
                ScanResume(i) =>
                   IF Len(suspended') < Len(suspended)
                   THEN /\ Len(outbox') = 1
                        /\ outbox'[1].type = "result-colors"
                        /\ walkedToTheEnd(outbox'[1], suspended[i].nodes)
                   ELSE outbox' = <<>>]_vars
    /\ <>[](scansInFlight = {})

\* a walk over two containers has just ended after waiting for the host
C33_Witness ==
    /\ scansInFlight = {}
    /\ edits > 0
    /\ analyzed = <<"A", "F">>
    /\ console = <<>>
    /\ Len(outbox) = 1
    /\ outbox[1].type = "result-colors"
    /\ <<"B", FALSE, 1>> \in paintsListed(outbox[1])
    /\ <<"D", FALSE, 1>> \in paintsListed(outbox[1])

\* C38: every analysis result posted is the classification of some
\* containers under one value of the visibility filter
C38_ResultUnderOneFilterValue ==
    \A k \in 1..Len(outbox) :
       outbox[k].type \in {"result-colors", "result-typography"} =>
          \E show \in BOOLEAN, nodes \in {<<"A">>, <<"A", "F">>} :
             outbox[k] \in {analyzeColors(doc, show, nodes),
                            analyzeTypography(doc, show, nodes)}

(***************************************************************************)
(* SpecName: the display name of a token, for the names a style or a       *)
(* variable of a file can carry: up to two book marks, up to two category  *)
(* prefixes in any order, and a stem                                       *)
(***************************************************************************)
MaxPrefixes == 2
MaxMarks == 2

Stems == {<<"X">>, <<"G","r","a","y">>}

RECURSIVE joined(_)
joined(parts) == IF parts = <<>> THEN <<>> ELSE Head(parts) \o joined(Tail(parts))

PrefixChains ==
    UNION {[1..k -> 1..Len(VALID_TOKEN_PREFIXES)] : k \in 0..MaxPrefixes}

TokenNames ==
    {joined([j \in 1..m |-> <<BooksEmoji, " ">>])
     \o joined([j \in 1..Len(chain) |-> VALID_TOKEN_PREFIXES[chain[j]]])
     \o stem :
        m \in 0..MaxMarks, chain \in PrefixChains, stem \in Stems}

\* a handler resolves a token of the given name and posts its display name
\* (request: the name the display name was computed from)
DisplayName(name) ==
    /\ outbox' = << updateDetail("B", removeTokenPrefix(name), "S_brand") >>
    /\ request' = [tokenName |-> name]
    /\ console' = <<>>
    /\ noAnalysis
    /\ UNCHANGED <<hostVars, pluginVars, applied, roundTrip, colorCacheOrigin,
                   textCacheOrigin, edits>>

InitName == pluginStart(PlainDoc, "P1", <<>>)

NextName == \E name \in TokenNames : DisplayName(name)

SpecName == InitName /\ [][NextName]_vars

\* C34: the display name computed for a token starts with none of the six
\* allow-listed prefixes, and removeTokenPrefix leaves it as it is
C34_AllPrefixesRemoved ==
    request # NullRec =>
        /\ ~hasValidPrefix(outbox[1].styleName)
        /\ removeTokenPrefix(outbox[1].styleName) = outbox[1].styleName

(***************************************************************************)
(* SpecGroup: the typography of frame A and section S, whose texts T and W *)
(* come in fonts of several families and styles                            *)
(***************************************************************************)
BoldItalic == <<"B","o","l","d"," ","I","t","a","l","i","c">>

\* among them two styles of one readable weight, and families and styles
\* whose names contain the character the map key is joined with
GroupFonts ==
    {font(Inter, Bold), font(Inter, BoldItalic), font(Roboto, Bold),
     font(<<"A">>, <<"C">>), font(<<"A","_","B">>, <<"C">>),
     font(<<"A">>, <<"B","_","C">>), MixedFont}

GroupDocs ==
    {[PlainDoc EXCEPT !["T"].fontName = f, !["W"].fontName = g] :
        f \in GroupFonts, g \in GroupFonts}

InitGroup == \E d \in GroupDocs : pluginStart(d, "P1", <<"A">>)

NextGroup ==
    \/ \E sel \in {<<"A">>, <<"T", "W">>, <<"W">>} : UserSelect(sel)
    \/ SelectionChange
    \/ \E tab \in Tabs : SwitchTab(tab)

SpecGroup == InitGroup /\ [][NextGroup]_vars

\* the family and the style a text node is reported under
profileOf(n) ==
    IF doc[n].fontName = MixedFont
    THEN << <<"M","i","x","e","d">>, <<"M","i","x","e","d">> >>
    ELSE <<doc[n].fontName.family, doc[n].fontName.style>>

\* C35: in every typography reply, two text nodes listed are in the same
\* group if and only if they have the same font family and the same font
\* style string; a listed node is in exactly one group; and the label of a
\* group is the family and the readable weight of its first occurrence
C35_GroupedByFamilyAndStyle ==
    \A i \in typographyReplies :
       /\ \A n, m \in {"T", "W"} :
             (textGroupsOf(i, n) # {} /\ textGroupsOf(i, m) # {}) =>
                /\ Cardinality(textGroupsOf(i, n)) = 1
                /\ (textGroupsOf(i, n) = textGroupsOf(i, m)
                      <=> profileOf(n) = profileOf(m))
       /\ \A g \in 1..Len(outbox[i].groups) :
             LET first == outbox[i].groups[g].nodeStyles[1].nodeId
             IN  outbox[i].groups[g].label =
                    profileOf(first)[1] \o <<" ">>
                    \o extractReadableWeight(profileOf(first)[2])

(***************************************************************************)
(* SpecSelf: the selection is written by the plugin only (select-node,     *)
(* select-multiple-nodes, back-to-list), so every selectionchange event    *)
(* the host delivers is one the plugin caused itself                       *)
(***************************************************************************)
InitSelf == \E sel \in {<<>>, <<"A">>, <<"B", "D">>} : pluginStart(PlainDoc, "P1", sel)

NextSelf ==
    \/ SelectionChange
    \/ \E nodeId \in {"B", "D", "gone"} : SelectNode(nodeId)
    \/ \E nodeIds \in {<<"B", "T">>, <<"gone">>} : SelectMultipleNodes(nodeIds)
    \/ \E i \in 1..MaxSuspended : SelectTimeout(i)
    \/ EnterListView
    \/ BackToList
    \/ \E i \in 1..MaxSuspended : BackToListResume(i)
    \/ \E tab \in Tabs : SwitchTab(tab)

SpecSelf == InitSelf /\ [][NextSelf]_vars

\* C36: whenever the event of a selection write of the plugin is delivered,
\* ignoringSelectionChange is still set, and the delivery leaves rootFrameIds
\* as they are and posts nothing
C36_SelfWriteNeverProcessed ==
    [][SelectionChange =>
          /\ ignoringSelectionChange
          /\ rootFrameIds' = rootFrameIds
          /\ outbox' = <<>>]_vars

(***************************************************************************)
(* SpecUser: the selection is changed by the user only; the plugin sets    *)
(* the flag without writing the selection (select-multiple-nodes with ids  *)
(* that resolve to no node), so every selectionchange event is the user's  *)
(***************************************************************************)
InitUser == \E sel \in {<<>>, <<"A">>} : pluginStart(PlainDoc, "P1", sel)

NextUser ==
    \/ \E sel \in {<<>>, <<"A">>, <<"B">>, <<"F">>, <<"B", "D">>} : UserSelect(sel)
    \/ SelectionChange
    \/ SelectMultipleNodes(<<"gone">>)
    \/ \E i \in 1..MaxSuspended : SelectTimeout(i)
    \/ \E tab \in Tabs : SwitchTab(tab)

SpecUser == InitUser /\ [][NextUser]_vars

\* C37: the delivery of a selection change of the user sets rootFrameIds to
\* the containers of the selection and posts an empty message (nothing
\* selected) or an analysis result
C37_UserChangeNeverSwallowed ==
    [][SelectionChange =>
          /\ rootFrameIds' = getValidFramesFromSelection(selection)
          /\ \E i \in 1..Len(outbox') :
                outbox'[i].type \in {"empty", "result-colors", "result-typography"}]_vars

(***************************************************************************)
(* SpecNest: selections of several nodes, among them nodes whose           *)
(* containers lie in one another (B in frame A, D in frame F inside A)     *)
(***************************************************************************)
NestDocs ==
    {hide(withSlot(PlainDoc, "D", FALSE, config), hidden) :
        config \in {"plain", "two", "brand"}, hidden \in {{}, {"D"}}}

NestSelections ==
    {<<"A">>, <<"F">>, <<"B", "D">>, <<"D", "B">>, <<"B", "T">>, <<"D", "E">>,
     <<"T", "W">>}

InitNest == \E d \in NestDocs, sel \in {<<"A">>, <<"B", "D">>} : pluginStart(d, "P1", sel)

NextNest ==
    \/ \E sel \in NestSelections : UserSelect(sel)
    \/ SelectionChange
    \/ \E tab \in Tabs : SwitchTab(tab)
    \/ \E value \in BOOLEAN : ToggleHidden(value)

SpecNest == InitNest /\ [][NextNest]_vars

\* the places of a typography reply that list text node n
textPlacesOf(reply, n) ==
    UNION {{<<g, j>> : j \in {k \in 1..Len(reply.groups[g].nodeStyles) :
                                 reply.groups[g].nodeStyles[k].nodeId = n}} :
              g \in 1..Len(reply.groups)}

\* C39: in every reply, each paint (node, slot, position in the paint list)
\* and each text node is listed at most once over all groups, whatever
\* containers the selection resolved to
C39_NoOccurrenceTwice ==
    /\ \A i \in colorReplies :
          Cardinality(occurrencesOf(outbox[i])) = Cardinality(paintsListed(outbox[i]))
    /\ \A i \in typographyReplies :
          \A n \in NodeIds : Cardinality(textPlacesOf(outbox[i], n)) <= 1

(***************************************************************************)
(* SpecRoot: the handlers that write rootFrameId and rootFrameIds (the     *)
(* start of the plugin, selectionchange, enter-list-view), with selections *)
(* of none, one and several nodes, of one container and of several         *)
(***************************************************************************)
RootSelections ==
    {<<>>, <<"A">>, <<"R">>, <<"B", "T">>, <<"B", "D">>, <<"B", "T", "W">>,
     <<"R", "E">>}

InitRoot == \E sel \in {<<>>, <<"A">>, <<"R">>, <<"B", "T">>} : pluginStart(PlainDoc, "P1", sel)

NextRoot ==
    \/ \E sel \in RootSelections : UserSelect(sel)
    \/ SelectionChange
    \/ EnterListView
    \/ \E nodeIds \in {<<"B", "T">>, <<"gone">>} : SelectMultipleNodes(nodeIds)
    \/ \E i \in 1..MaxSuspended : SelectTimeout(i)
    \/ \E tab \in Tabs : SwitchTab(tab)

SpecRoot == InitRoot /\ [][NextRoot]_vars

\* C40: rootFrameIds is empty and rootFrameId is null, or rootFrameIds is not
\* empty, lists no id twice, and rootFrameId is its first element
C40_RootIdsAgree ==
    IF rootFrameIds = <<>> THEN rootFrameId = Null
    ELSE /\ rootFrameId = rootFrameIds[1]
         /\ \A i, j \in 1..Len(rootFrameIds) :
               i # j => rootFrameIds[i] # rootFrameIds[j]

\* three nodes selected, two of them of one frame: the selectionchange
\* handler has stored the two containers
C40_Witness ==
    /\ selection = <<"B", "T", "W">>
    /\ rootFrameIds = <<"A", "S">>
    /\ rootFrameId = "A"
    /\ \E i \in 1..Len(outbox) : outbox[i].type = "selection-changed"

=============================================================================
